---- MODULE Spec2Model ----
(***************************************************************************)
(* Execution and settlement reconciliation engine of poly-innovatio:       *)
(* the trade ledger (db.ts), the price gate and the background resolution  *)
(* loop (strategy.ts), resolveMarketTrades (the strategy module that       *)
(* carries the retry budget) and the live order race (clob.ts).            *)
(*                                                                         *)
(* Units.  Prices, payouts and profits are integers in 1e-5 dollars        *)
(* (0.60 is 60000).  Time is counted in whole market periods of 300 s, so  *)
(* the slug of the window that is current at time n is n itself.           *)
(***************************************************************************)
EXTENDS Integers, Sequences, FiniteSets, TLC

(***************************************************************************)
(* Bounds of the model.                                                    *)
(***************************************************************************)
MaxNow == 13
MaxTrades == 2
OrderSize == 2

(***************************************************************************)
(* Program constants.                                                      *)
(***************************************************************************)
BUY_THRESHOLD == 60000
BUY_MAX_PRICE == 85000
WIN_PAYOUT == 100000
LOSE_PAYOUT == 0
FRESH_PERIODS == 12
RESOLUTION_MAX_RETRIES == 12
MAX_FILL_POLLS == 130
MAX_SESSION_LOSS == 5000000
MAX_FETCH_RETRIES == 3
MS_PER_SECOND == 1000
WINDOW_SECONDS == 300
DECIMAL_BASE == 10
MIN_REMAINING_PAPER == 5
MIN_REMAINING_LIVE == 15
RETRY_SLEEP == 10
RESOLVED_PRICE == 9990
MaxConnections == 3
MaxOutcomes == 2

Sides == {"Up", "Down"}
NoSub == 0 - 1

\* A nullable column or an optional value: <<>> is NULL, <<v>> holds v.
Null == <<>>
Some(v) == <<v>>

(***************************************************************************)
(* Input sets.                                                             *)
(***************************************************************************)
\* Windows for which the market directory knows a market while the gate runs.
GateWindows == {0}
\* Windows of the positions the reconciler finds in the ledger when it starts.
ReconWindows == {0, 10}
\* Tick prices: below the threshold, the threshold, just below the ceiling,
\* the ceiling, above the ceiling.
TickPrices == {59999, 60000, 84999, 85000, 85001}
OtherPrices == {60000}

VARIABLES
  now,              \* wall clock, in periods
  alive,            \* a process is running
  trades,           \* the ledger: the rows of table trades, row id = index
  bettedMarkets,    \* strategy.ts: slugs already bet on
  prices,           \* strategy.ts: latest price per token id (a Map)
  marketSettled,    \* strategy.ts: settled-early flag
  resolutionTimer,  \* strategy.ts: the interval timer is armed
  cycles,           \* resolution-loop callbacks in flight
  rmt,              \* the resolveMarketTrades call in flight
  sub,              \* main: window whose market the price stream is subscribed to
  mk,               \* market directory: per window open / closed / winner
  nullPolls,        \* history: 'not settled' answers the loop got per window
  orders,           \* exchange: the Up and the Down order of the race
  pd,               \* placeDualOrders: position and result
  wf,               \* waitForFill: position, poll counter, answers, result
  aborted,          \* fillAbortController.signal.aborted
  abortAt,          \* history: where waitForFill was when the signal was set
  cancelLog,        \* history: the cancelOrder requests placeDualOrders and waitForFill sent
  sessionPnL,       \* mainLive: running total of the session, in 1e-5 dollars
  sessionTrades,    \* mainLive: fills recorded in the session
  ml,               \* mainLive: position in the iteration of its loop
  dbOpen,           \* db.ts: the storage handle is open
  sig,              \* the SIGINT handler of mainLive: position, cancels sent
  caught,           \* history: the catch of the resolution loop has logged an error
  fetchRetries,     \* main: failed market lookups in the current iteration
  wc,               \* window clock: the last two readings and what was computed from them
  dl,               \* main / mainLive: market discovery of one iteration, timed in seconds
  cr,               \* checkResolution: the answer it was given and what it returned
  wsk               \* connectMarketWs: the socket, the alive flag, the reconnect timer

ledgerVars == <<now, alive, trades, bettedMarkets, prices, marketSettled,
                resolutionTimer, cycles, rmt, sub, mk, nullPolls>>

raceVars == <<orders, pd, wf, aborted, abortAt, cancelLog>>

sessionVars == <<sessionPnL, sessionTrades, ml, dbOpen, sig, caught, fetchRetries>>

edgeVars == <<wc, dl, cr, wsk>>

vars == <<ledgerVars, raceVars, sessionVars, edgeVars>>

(***************************************************************************)
(* Market directory (clob.ts, market section).                             *)
(***************************************************************************)
UpToken(w) == <<w, "Up">>
DownToken(w) == <<w, "Down">>
OtherToken == <<NoSub, "Other">>

\* MarketInfo as fetchMarket returns it.
Market(w) == [slug |-> w, upTokenId |-> UpToken(w), downTokenId |-> DownToken(w)]

\* getCurrentMarketSlug: floor(now / 300 s) * 300 s, in periods.
GetCurrentMarketSlug == now

\* fetchMarket: a market that is closed or resolved is reported "closed".
FetchMarketOpen(w) == mk[w] = "open"

\* checkResolution: the winner when the market is settled, null otherwise;
\* a failed request throws or yields null.
CheckResolutionResults(w) ==
  {"throw", "null"} \cup (IF mk[w] \in Sides THEN {mk[w]} ELSE {})

(***************************************************************************)
(* Window clock (clob.ts 359-368), on a clock in milliseconds.  A slug is   *)
(* the sequence of its parts between the dashes, the last one the decimal  *)
(* digits of the window's timestamp.                                       *)
(***************************************************************************)
RECURSIVE ToDecimal(_)
\* Number to string, for a natural number: its decimal digits.
ToDecimal(n) ==
  IF n < DECIMAL_BASE THEN <<n>>
  ELSE Append(ToDecimal(n \div DECIMAL_BASE), n % DECIMAL_BASE)

RECURSIVE ParseInt(_)
\* parseInt(digits, 10)
ParseInt(digits) ==
  IF digits = <<>> THEN 0
  ELSE ParseInt(SubSeq(digits, 1, Len(digits) - 1)) * DECIMAL_BASE
       + digits[Len(digits)]

\* getCurrentMarketSlug with Date.now() = nowMs.
CurrentMarketSlugAt(nowMs) ==
  LET nowSec == nowMs \div MS_PER_SECOND
      ts == (nowSec \div WINDOW_SECONDS) * WINDOW_SECONDS
  IN <<"btc", "updown", "5m", ToDecimal(ts)>>

\* Variant of getMarketEndTime that adds the period to the milliseconds.
MarketEndTimeMixedUnits(slug) ==
  ParseInt(slug[Len(slug)]) * MS_PER_SECOND + WINDOW_SECONDS

\* getMarketEndTime
GetMarketEndTime(slug) ==
  (ParseInt(slug[Len(slug)]) + WINDOW_SECONDS) * MS_PER_SECOND

\* No reading has been taken.
NoReading == [ms |-> 0, slug |-> <<>>, endTime |-> 0, prevMs |-> 0, prevSlug |-> <<>>]

\* A caller reads the clock: getCurrentMarketSlug(), then getMarketEndTime
\* of the slug (index.ts 150-151, 299-300).  Neither touches anything else.
ReadClock(nowMs) ==
  /\ wc' = [ms |-> nowMs,
            slug |-> CurrentMarketSlugAt(nowMs),
            endTime |-> GetMarketEndTime(CurrentMarketSlugAt(nowMs)),
            prevMs |-> wc.ms,
            prevSlug |-> wc.slug]
  /\ UNCHANGED ledgerVars
  /\ UNCHANGED raceVars
  /\ UNCHANGED sessionVars
  /\ UNCHANGED <<dl, cr, wsk>>

(***************************************************************************)
(* The settlement query (clob.ts 440-483) as a function of the answer the  *)
(* market directory gives: the status of the response, whether its body    *)
(* and the two lists of the market parse, the market's flags, the outcome  *)
(* labels and the outcome prices as the texts the directory sends.         *)
(***************************************************************************)
PriceTexts == {"0", "0.9989", "0.999", "0.9999", "1", "abc"}

\* parseFloat of a price text, in 1e-4; Null stands for NaN.
ParseFloat(text) ==
  CASE text = "0" -> Some(0)
    [] text = "0.9989" -> Some(9989)
    [] text = "0.999" -> Some(9990)
    [] text = "0.9999" -> Some(9999)
    [] text = "1" -> Some(10000)
    [] OTHER -> Null

\* parseFloat(p) >= 0.999: a comparison with NaN is false.
AtWinnerPrice(text) ==
  ParseFloat(text) # Null /\ ParseFloat(text)[1] >= RESOLVED_PRICE

\* The loop of lines 476-480 from index i on.
RECURSIVE FirstWinnerFrom(_, _, _)
FirstWinnerFrom(outcomes, outcomePrices, i) ==
  IF i > Len(outcomes) THEN "null"
  ELSE IF AtWinnerPrice(outcomePrices[i]) THEN outcomes[i]
  ELSE FirstWinnerFrom(outcomes, outcomePrices, i + 1)

\* Variant of checkResolution that does not look at the market's flags.
CheckResolutionAnyState(a) ==
  IF ~a.ok \/ ~a.parsed THEN "null"
  ELSE IF Len(a.outcomes) # Len(a.outcomePrices) THEN "null"
  ELSE FirstWinnerFrom(a.outcomes, a.outcomePrices, 1)

\* checkResolution, from the response on.
CheckResolution(a) ==
  IF ~a.ok \/ ~a.parsed THEN "null"
  ELSE IF Len(a.outcomes) # Len(a.outcomePrices) THEN "null"
  ELSE LET hasWinner == \E k \in 1..Len(a.outcomePrices) : AtWinnerPrice(a.outcomePrices[k])
       IN IF ~a.resolved /\ ~(a.closed /\ hasWinner) THEN "null"
          ELSE FirstWinnerFrom(a.outcomes, a.outcomePrices, 1)

NoAnswer ==
  [ok |-> FALSE, parsed |-> FALSE, resolved |-> FALSE, closed |-> FALSE,
   outcomes |-> <<>>, outcomePrices |-> <<>>]

NoQuery == [answer |-> NoAnswer, returned |-> FALSE, result |-> "null"]

\* checkResolution returns for the answer it was given.
CheckResolutionReturn ==
  /\ ~cr.returned
  /\ cr' = [cr EXCEPT !.returned = TRUE, !.result = CheckResolution(cr.answer)]
  /\ UNCHANGED ledgerVars
  /\ UNCHANGED raceVars
  /\ UNCHANGED sessionVars
  /\ UNCHANGED <<wc, dl, wsk>>

(***************************************************************************)
(* The price stream of one market (ws.ts 7-103): the socket of the current *)
(* connection, the alive flag, the reconnect timer of line 83.  History:   *)
(* the sockets created, the last price handed to the callback, and whether *)
(* a socket was created or the callback invoked after close().             *)
(***************************************************************************)
NoStream ==
  [conn |-> "none", alive |-> FALSE, timer |-> FALSE, sockets |-> 0,
   last |-> Null, openedAfterClose |-> FALSE, calledAfterClose |-> FALSE]

\* connect(): a new socket is created (line 16).
Connect(k) ==
  [k EXCEPT !.conn = "connecting", !.sockets = @ + 1,
            !.openedAfterClose = @ \/ ~k.alive]

\* connectMarketWs is called: alive is set and connect() runs (lines 12, 92).
WsStart ==
  /\ wsk.conn = "none"
  /\ wsk' = Connect([NoStream EXCEPT !.alive = TRUE])
  /\ UNCHANGED ledgerVars
  /\ UNCHANGED raceVars
  /\ UNCHANGED sessionVars
  /\ UNCHANGED <<wc, dl, cr>>

\* The socket opens and the subscription is sent (lines 18-33).
WsOpen ==
  /\ wsk.conn = "connecting"
  /\ wsk' = [wsk EXCEPT !.conn = "open"]
  /\ UNCHANGED ledgerVars
  /\ UNCHANGED raceVars
  /\ UNCHANGED sessionVars
  /\ UNCHANGED <<wc, dl, cr>>

\* A price message arrives on the open socket and onPrice is invoked
\* (lines 35-77).
WsMessage(tokenId, price) ==
  /\ wsk.conn = "open"
  /\ wsk' = [wsk EXCEPT !.last = Some(<<tokenId, price>>),
                        !.calledAfterClose = @ \/ ~wsk.alive]
  /\ UNCHANGED ledgerVars
  /\ UNCHANGED raceVars
  /\ UNCHANGED sessionVars
  /\ UNCHANGED <<wc, dl, cr>>

\* The socket closes: the server or the network ends the connection, a
\* connection attempt fails, or the closing handshake begun by close() ends.
\* The close handler arms the reconnect timer when alive (lines 79-85).
WsDisconnect ==
  /\ wsk.conn \in {"connecting", "open", "closing"}
  /\ wsk' = [wsk EXCEPT !.conn = "closed", !.timer = wsk.alive]
  /\ UNCHANGED ledgerVars
  /\ UNCHANGED raceVars
  /\ UNCHANGED sessionVars
  /\ UNCHANGED <<wc, dl, cr>>

\* The reconnect timer fires: connect() (line 83).  The number of sockets
\* is kept within MaxConnections.
WsReconnect ==
  /\ wsk.timer
  /\ wsk.sockets < MaxConnections
  /\ wsk' = Connect([wsk EXCEPT !.timer = FALSE])
  /\ UNCHANGED ledgerVars
  /\ UNCHANGED raceVars
  /\ UNCHANGED sessionVars
  /\ UNCHANGED <<wc, dl, cr>>

\* close() of the returned handle (lines 95-101).
WsClose ==
  /\ wsk.conn # "none" /\ wsk.alive
  /\ wsk' = [wsk EXCEPT !.alive = FALSE,
                        !.conn = IF @ \in {"open", "connecting"} THEN "closing" ELSE @]
  /\ UNCHANGED ledgerVars
  /\ UNCHANGED raceVars
  /\ UNCHANGED sessionVars
  /\ UNCHANGED <<wc, dl, cr>>

(***************************************************************************)
(* Market discovery of one iteration of main (index.ts 149-192) and of     *)
(* mainLive (index.ts 298-359), with the time left in the window counted   *)
(* in seconds.                                                             *)
(***************************************************************************)
Modes == {"paper", "live"}

IdleDl(mode) ==
  [mode |-> mode, pc |-> "top", remaining |-> 0, fetchRetries |-> 0,
   attempts |-> 0, result |-> "none", engagedAt |-> Null]

\* Nothing has been read from the clock and no discovery has begun.
NoEdge ==
  /\ wc = NoReading
  /\ dl = IdleDl("live")
  /\ cr = NoQuery
  /\ wsk = NoStream

\* The least time left for which an iteration goes on to discovery (lines
\* 155 and 305).
MinRemaining(mode) == IF mode = "live" THEN MIN_REMAINING_LIVE ELSE MIN_REMAINING_PAPER

\* The head of an iteration, with rem seconds left in the current window
\* when Date.now() is read (lines 150-153, 299-302): with too little time
\* left, or in live mode with the hour / day filter against trading (line
\* 313), the iteration sleeps to the end of the window; otherwise the
\* discovery loop begins.
DiscoveryTop(rem, trade) ==
  /\ dl.pc = "top"
  /\ dl' = [IdleDl(dl.mode) EXCEPT
             !.remaining = rem,
             !.pc = IF rem < MinRemaining(dl.mode) \/ (dl.mode = "live" /\ ~trade)
                    THEN "wait" ELSE "fetch"]
  /\ UNCHANGED ledgerVars
  /\ UNCHANGED raceVars
  /\ UNCHANGED sessionVars
  /\ UNCHANGED <<wc, cr, wsk>>

\* What happens with a market that was found: in live mode placeDualOrders
\* is called (line 362), in paper mode the price stream is connected (line
\* 201).  engagedAt records the time left at that moment.
Engage(d) == [d EXCEPT !.pc = "engaged", !.engagedAt = Some(d.remaining)]

\* Variant of the discovery loop that retries after a "closed" answer and
\* gives up one attempt later.
DiscoveryFetchRetriesClosed(r, took) ==
  /\ dl.pc = "fetch"
  /\ LET d == [dl EXCEPT !.remaining = @ - took, !.attempts = @ + 1, !.result = r]
     IN dl' = CASE r \in {"closed", "null"} ->
                     IF d.fetchRetries + 1 > MAX_FETCH_RETRIES
                     THEN [d EXCEPT !.fetchRetries = @ + 1, !.pc = "skip"]
                     ELSE [d EXCEPT !.fetchRetries = @ + 1, !.pc = "retry"]
                [] r = "market" -> Engage(d)
                [] OTHER -> [d EXCEPT !.pc = "exit"]
  /\ UNCHANGED ledgerVars
  /\ UNCHANGED raceVars
  /\ UNCHANGED sessionVars
  /\ UNCHANGED <<wc, cr, wsk>>

\* fetchMarket returns after took seconds (lines 169-189, 336-356):
\* "closed" skips the window, null is counted and retried after ten seconds
\* or, at MAX_FETCH_RETRIES, skips the window, a market ends the loop; a
\* rejected request leaves main / mainLive and the process exits.
DiscoveryFetch(r, took) ==
  /\ dl.pc = "fetch"
  /\ LET d == [dl EXCEPT !.remaining = @ - took, !.attempts = @ + 1, !.result = r]
     IN dl' = CASE r = "closed" -> [d EXCEPT !.pc = "skip"]
                [] r = "null" ->
                     IF d.fetchRetries + 1 >= MAX_FETCH_RETRIES
                     THEN [d EXCEPT !.fetchRetries = @ + 1, !.pc = "skip"]
                     ELSE [d EXCEPT !.fetchRetries = @ + 1, !.pc = "retry"]
                [] r = "market" -> Engage(d)
                [] OTHER -> [d EXCEPT !.pc = "exit"]
  /\ UNCHANGED ledgerVars
  /\ UNCHANGED raceVars
  /\ UNCHANGED sessionVars
  /\ UNCHANGED <<wc, cr, wsk>>

\* The sleep of lines 188 and 355 ends and the loop fetches again.
DiscoveryRetry ==
  /\ dl.pc = "retry"
  /\ dl' = [dl EXCEPT !.pc = "fetch", !.remaining = @ - RETRY_SLEEP]
  /\ UNCHANGED ledgerVars
  /\ UNCHANGED raceVars
  /\ UNCHANGED sessionVars
  /\ UNCHANGED <<wc, cr, wsk>>

\* The window has ended: the sleep to its end is over (or was not needed)
\* and the loop is at its head again, in a later window.
DiscoveryNext ==
  /\ dl.pc \in {"wait", "skip", "engaged"}
  /\ dl' = IdleDl(dl.mode)
  /\ UNCHANGED ledgerVars
  /\ UNCHANGED raceVars
  /\ UNCHANGED sessionVars
  /\ UNCHANGED <<wc, cr, wsk>>

(***************************************************************************)
(* Trade ledger (db.ts).                                                   *)
(***************************************************************************)
Ids(tr) == 1..Len(tr)

InsertTrade(tr, marketSlug, tokenId, side, buyPrice) ==
  Append(tr, [market_slug |-> marketSlug, token_id |-> tokenId, side |-> side,
              buy_price |-> buyPrice, outcome |-> "NULL", payout |-> Null,
              profit |-> Null, created_at |-> now, resolved_at |-> Null])

\* insertLiveTrade: a live row, with the fill price as entry price, the
\* filled size and the two order ids.
InsertLiveTrade(tr, marketSlug, tokenId, side, fillPrice, filledOrderId, cancelledOrderId, fillSize) ==
  Append(tr, [market_slug |-> marketSlug, token_id |-> tokenId, side |-> side,
              buy_price |-> fillPrice, outcome |-> "NULL", payout |-> Null,
              profit |-> Null, created_at |-> now, resolved_at |-> Null,
              order_id |-> filledOrderId, cancelled_order_id |-> cancelledOrderId,
              size |-> fillSize])

\* Variant of resolveTrade that stores the payout as the profit, without
\* subtracting the entry price.
ResolveTradeGross(tr, id, outcome) ==
  LET payout == IF outcome = "win" THEN WIN_PAYOUT ELSE LOSE_PAYOUT
  IN [tr EXCEPT ![id] = [@ EXCEPT !.outcome = outcome,
                                  !.payout = Some(payout),
                                  !.profit = Some(payout),
                                  !.resolved_at = Some(now)]]

\* UPDATE trades SET outcome, payout, profit = payout - buy_price,
\* resolved_at = now WHERE id = ?
ResolveTrade(tr, id, outcome) ==
  LET payout == IF outcome = "win" THEN WIN_PAYOUT ELSE LOSE_PAYOUT
  IN [tr EXCEPT ![id] = [@ EXCEPT !.outcome = outcome,
                                  !.payout = Some(payout),
                                  !.profit = Some(payout - tr[id].buy_price),
                                  !.resolved_at = Some(now)]]

\* Variant of resolveTradeTimeout that sets the outcome and nothing else.
ResolveTradeTimeoutOutcomeOnly(tr, id) ==
  [tr EXCEPT ![id] = [@ EXCEPT !.outcome = "timeout"]]

\* UPDATE trades SET outcome = 'timeout', payout = 0, profit = -buy_price,
\* resolved_at = now WHERE id = ?
ResolveTradeTimeout(tr, id) ==
  [tr EXCEPT ![id] = [@ EXCEPT !.outcome = "timeout",
                               !.payout = Some(0),
                               !.profit = Some(0 - tr[id].buy_price),
                               !.resolved_at = Some(now)]]

\* Variant of the selection without the freshness test.
IsOpenTradeAnyAge(t) == t.outcome = "NULL"

\* Variant of the freshness test with one period in place of one hour.
IsOpenTradeOnePeriod(t) == t.outcome = "NULL" /\ t.created_at > now - 1

\* WHERE outcome IS NULL AND created_at > datetime('now', '-1 hour')
IsOpenTrade(t) == t.outcome = "NULL" /\ t.created_at > now - FRESH_PERIODS

\* getOpenTrades: the ids of the open rows, in row order.
GetOpenTrades == SelectSeq([i \in Ids(trades) |-> i], LAMBDA i : IsOpenTrade(trades[i]))

\* getTradesBySlug
GetTradesBySlug(slug) ==
  SelectSeq([i \in Ids(trades) |-> i], LAMBDA i : trades[i].market_slug = slug)

(***************************************************************************)
(* Price gate (strategy.ts).                                               *)
(***************************************************************************)
\* Map.set
MapSet(m, k, v) == [x \in DOMAIN m \cup {k} |-> IF x = k THEN v ELSE m[x]]

\* Variant of the seeding that starts from the empty set.
SeedNothing == {}

\* The set seeded when the module is loaded: the slugs of getOpenTrades().
SeedBettedMarkets == {trades[i].market_slug : i \in {j \in Ids(trades) : IsOpenTrade(trades[j])}}

\* Variant of the test that counts the ceiling itself as above it.
BothSidesAtCeiling(m, market) ==
  /\ market.upTokenId \in DOMAIN m
  /\ market.downTokenId \in DOMAIN m
  /\ m[market.upTokenId] >= BUY_MAX_PRICE
  /\ m[market.downTokenId] >= BUY_MAX_PRICE

\* Both sides known and above the ceiling (lines 52-55).
BothSidesAboveMax(m, market) ==
  /\ market.upTokenId \in DOMAIN m
  /\ market.downTokenId \in DOMAIN m
  /\ m[market.upTokenId] > BUY_MAX_PRICE
  /\ m[market.downTokenId] > BUY_MAX_PRICE

\* Variant of the price tests that also rejects the ceiling itself.
PriceQualifiesBelowCeiling(price) ==
  ~(price < BUY_THRESHOLD) /\ price < BUY_MAX_PRICE

\* The two price tests a tick must pass (lines 66-74): neither below the
\* threshold nor above the ceiling.
PriceQualifies(price) == ~(price < BUY_THRESHOLD) /\ ~(price > BUY_MAX_PRICE)

\* Variant of the side test that takes every token but the Up token for the
\* Down token.
SideOfElseDown(market, tokenId) ==
  IF tokenId = market.upTokenId THEN Some("Up") ELSE Some("Down")

\* The side of a token id (lines 77-84); Null when it matches neither.
SideOf(market, tokenId) ==
  IF tokenId = market.upTokenId THEN Some("Up")
  ELSE IF tokenId = market.downTokenId THEN Some("Down")
  ELSE Null

\* Variant of the membership test that never finds the window.
NeverBet(slug) == FALSE

\* The membership test of line 63.
AlreadyBet(slug) == slug \in bettedMarkets

\* handlePriceUpdate(market, tokenId, price).  The set priceHighLogged only
\* decides whether a line is logged and is left out.
HandlePriceUpdate(market, tokenId, price) ==
  LET prices1 == MapSet(prices, tokenId, price)
      side == SideOf(market, tokenId)
  IN /\ prices' = prices1
     /\ IF ~marketSettled /\ ~AlreadyBet(market.slug) /\ BothSidesAboveMax(prices1, market)
        THEN marketSettled' = TRUE /\ UNCHANGED <<bettedMarkets, trades>>
        ELSE IF AlreadyBet(market.slug) \/ ~PriceQualifies(price) \/ side = Null
        THEN UNCHANGED <<marketSettled, bettedMarkets, trades>>
        ELSE /\ bettedMarkets' = bettedMarkets \cup {market.slug}
             /\ trades' = InsertTrade(trades, market.slug, tokenId, side[1], price)
             /\ UNCHANGED marketSettled

\* clearMarketState
ClearMarketState == marketSettled' = FALSE

(***************************************************************************)
(* Resolution loop (strategy.ts) and resolveMarketTrades.                  *)
(***************************************************************************)
RECURSIVE GroupBySlug(_)
\* bySlug of lines 111-116: one group per slug, in order of first
\* appearance, each with the ids of its trades.
GroupBySlug(ids) ==
  IF ids = <<>> THEN <<>>
  ELSE LET slug == trades[Head(ids)].market_slug
           same == SelectSeq(ids, LAMBDA i : trades[i].market_slug = slug)
           rest == SelectSeq(ids, LAMBDA i : trades[i].market_slug # slug)
       IN <<[slug |-> slug, ids |-> same]>> \o GroupBySlug(rest)

RECURSIVE ResolveGroup(_, _, _)
\* Lines 122-129: every trade of the group is resolved against the winner.
ResolveGroup(tr, ids, winner) ==
  IF ids = <<>> THEN tr
  ELSE ResolveGroup(
         ResolveTrade(tr, Head(ids), IF tr[Head(ids)].side = winner THEN "win" ELSE "lose"),
         Tail(ids), winner)

RECURSIVE TimeoutGroup(_, _)
\* resolveMarketTrades, after the retry budget: every pending trade times out.
TimeoutGroup(tr, ids) ==
  IF ids = <<>> THEN tr
  ELSE TimeoutGroup(ResolveTradeTimeout(tr, Head(ids)), Tail(ids))

\* Slots for callbacks of the interval timer that are in flight together.
CycleIds == {1, 2}
IdleCycle == <<>>
IdleRmt == [pc |-> "idle", slug |-> NoSub, pending |-> <<>>, attempt |-> 0]

\* The state a freshly loaded process has in memory.
FreshMemory ==
  /\ prices' = <<>>
  /\ marketSettled' = FALSE
  /\ cycles' = [c \in CycleIds |-> IdleCycle]
  /\ rmt' = IdleRmt
  /\ sub' = NoSub

(***************************************************************************)
(* Environment: the clock, the market directory, process start and stop.   *)
(***************************************************************************)
AllWindows == GateWindows \cup ReconWindows

\* Time passes.  main wakes at the end of the window it is subscribed to
\* (index.ts 210-218), so the clock does not run past that end before main
\* has unsubscribed.
AdvanceClock ==
  /\ now < MaxNow
  /\ (alive /\ sub # NoSub) => now <= sub
  /\ now' = now + 1
  /\ UNCHANGED <<alive, trades, bettedMarkets, prices, marketSettled,
                 resolutionTimer, cycles, rmt, sub, mk, nullPolls>>
  /\ UNCHANGED raceVars
  /\ UNCHANGED sessionVars
  /\ UNCHANGED edgeVars

\* The exchange closes a market: fetchMarket reports "closed" from now on.
MarketClose(w) ==
  /\ mk[w] = "open"
  /\ mk' = [mk EXCEPT ![w] = "closed"]
  /\ UNCHANGED <<now, alive, trades, bettedMarkets, prices, marketSettled,
                 resolutionTimer, cycles, rmt, sub, nullPolls>>
  /\ UNCHANGED raceVars
  /\ UNCHANGED sessionVars
  /\ UNCHANGED edgeVars

\* The exchange settles a market for side s.
MarketSettle(w, s) ==
  /\ mk[w] \in {"open", "closed"}
  /\ mk' = [mk EXCEPT ![w] = s]
  /\ UNCHANGED <<now, alive, trades, bettedMarkets, prices, marketSettled,
                 resolutionTimer, cycles, rmt, sub, nullPolls>>
  /\ UNCHANGED raceVars
  /\ UNCHANGED sessionVars
  /\ UNCHANGED edgeVars

\* The process ends (crash, kill, exit): everything in memory is lost.
Crash ==
  /\ alive
  /\ alive' = FALSE
  /\ bettedMarkets' = {}
  /\ resolutionTimer' = FALSE
  /\ FreshMemory
  /\ UNCHANGED <<now, trades, mk, nullPolls>>
  /\ UNCHANGED raceVars
  /\ UNCHANGED sessionVars
  /\ UNCHANGED edgeVars

\* A process starts: strategy.ts is loaded (lines 9-23) and main arms the
\* resolution loop (index.ts 144).
Start ==
  /\ ~alive
  /\ alive' = TRUE
  /\ bettedMarkets' = SeedBettedMarkets
  /\ resolutionTimer' = TRUE
  /\ FreshMemory
  /\ UNCHANGED <<now, trades, mk, nullPolls>>
  /\ UNCHANGED raceVars
  /\ dbOpen' = TRUE
  /\ fetchRetries' = 0
  /\ UNCHANGED <<sessionPnL, sessionTrades, ml, sig, caught>>
  /\ UNCHANGED edgeVars

\* stopResolutionLoop
StopResolutionLoop == resolutionTimer' = FALSE

\* closeDb
CloseDb == dbOpen' = FALSE

(***************************************************************************)
(* main, paper mode (index.ts 149-226).                                    *)
(***************************************************************************)
\* The market of the current slug is found open and its price stream is
\* connected.
MainSubscribe ==
  /\ alive /\ sub = NoSub
  /\ fetchRetries < MAX_FETCH_RETRIES
  /\ GetCurrentMarketSlug \in GateWindows
  /\ FetchMarketOpen(GetCurrentMarketSlug)
  /\ sub' = GetCurrentMarketSlug
  /\ UNCHANGED <<now, alive, trades, bettedMarkets, prices, marketSettled,
                 resolutionTimer, cycles, rmt, mk, nullPolls>>
  /\ UNCHANGED raceVars
  /\ fetchRetries' = 0
  /\ UNCHANGED <<sessionPnL, sessionTrades, ml, dbOpen, sig, caught>>
  /\ UNCHANGED edgeVars

\* main, the discovery loop when fetchMarket fails.  An HTTP error or an
\* unreadable body makes fetchMarket return null: the attempt is counted and
\* the lookup retried, and at MAX_FETCH_RETRIES the window is skipped.  A
\* network error or the ten-second timeout rejects the fetch inside
\* fetchMarket, which has no try / catch, neither has the loop: main()
\* rejects and its catch handler closes the ledger and exits the process.
MainFetchFails(r) ==
  /\ alive /\ sub = NoSub
  /\ GetCurrentMarketSlug \in GateWindows
  /\ fetchRetries < MAX_FETCH_RETRIES
  /\ r \in {"null", "throw"}
  /\ IF r = "null"
     THEN /\ fetchRetries' = fetchRetries + 1
          /\ UNCHANGED <<alive, bettedMarkets, resolutionTimer, prices,
                         marketSettled, cycles, rmt, sub, dbOpen>>
     ELSE /\ alive' = FALSE
          /\ bettedMarkets' = {}
          /\ resolutionTimer' = FALSE
          /\ FreshMemory
          /\ CloseDb
          /\ UNCHANGED fetchRetries
  /\ UNCHANGED <<now, trades, mk, nullPolls>>
  /\ UNCHANGED raceVars
  /\ UNCHANGED <<sessionPnL, sessionTrades, ml, sig, caught>>
  /\ UNCHANGED edgeVars

\* The window has ended or was flagged settled: ws.close(), clearMarketState().
MainUnsubscribe ==
  /\ alive /\ sub # NoSub
  /\ now > sub \/ marketSettled
  /\ sub' = NoSub
  /\ ClearMarketState
  /\ UNCHANGED <<now, alive, trades, bettedMarkets, prices,
                 resolutionTimer, cycles, rmt, mk, nullPolls>>
  /\ UNCHANGED raceVars
  /\ UNCHANGED sessionVars
  /\ UNCHANGED edgeVars

\* A price event reaches the callback of the connected stream.
Tick(tokenId, price) ==
  /\ alive /\ sub # NoSub
  /\ Len(trades) < MaxTrades
  /\ HandlePriceUpdate(Market(sub), tokenId, price)
  /\ UNCHANGED <<now, alive, resolutionTimer, cycles, rmt, sub, mk, nullPolls>>
  /\ UNCHANGED raceVars
  /\ UNCHANGED sessionVars
  /\ UNCHANGED edgeVars

(***************************************************************************)
(* Resolution loop: one callback of the interval timer, split at its       *)
(* awaits (strategy.ts 105-134).                                           *)
(***************************************************************************)
\* The timer fires: the open trades are read and grouped, and the first
\* settlement query is sent.  Nothing happens when no trade is open.
CycleStart(c) ==
  /\ alive /\ resolutionTimer
  /\ cycles[c] = IdleCycle
  /\ \A d \in CycleIds : d < c => cycles[d] # IdleCycle
  /\ cycles' = [cycles EXCEPT ![c] = GroupBySlug(GetOpenTrades)]
  /\ UNCHANGED <<now, alive, trades, bettedMarkets, prices, marketSettled,
                 resolutionTimer, rmt, sub, mk, nullPolls>>
  /\ UNCHANGED raceVars
  /\ UNCHANGED sessionVars
  /\ UNCHANGED edgeVars

\* History only: one more 'not settled' answer for window w, counted up to
\* the retry budget.
CountNullPoll(w) ==
  [nullPolls EXCEPT ![w] = IF @ < RESOLUTION_MAX_RETRIES THEN @ + 1 ELSE @]

\* Variant of the callback without its try / catch: a throw ends the
\* callback and the timer with it.
CycleResponseUncaught(c, r, counted) ==
  /\ alive
  /\ cycles[c] # IdleCycle
  /\ LET g == Head(cycles[c])
         thrown == r = "throw" \/ (r \in Sides /\ ~dbOpen)
     IN /\ r \in CheckResolutionResults(g.slug)
        /\ cycles' = [cycles EXCEPT ![c] = IF thrown THEN IdleCycle ELSE Tail(@)]
        /\ trades' = IF r \in Sides /\ ~thrown THEN ResolveGroup(trades, g.ids, r)
                     ELSE trades
        /\ nullPolls' = IF counted /\ r = "null" THEN CountNullPoll(g.slug) ELSE nullPolls
        /\ caught' = IF counted /\ thrown THEN TRUE ELSE caught
        /\ resolutionTimer' = IF thrown THEN FALSE ELSE resolutionTimer
  /\ UNCHANGED <<now, alive, bettedMarkets, prices, marketSettled,
                 rmt, sub, mk>>
  /\ UNCHANGED raceVars
  /\ UNCHANGED <<sessionPnL, sessionTrades, ml, dbOpen, sig, fetchRetries>>
  /\ UNCHANGED edgeVars

\* Variant of the callback that gives a window up at its first 'not
\* settled' answer.
CycleResponseGivesUp(c, r, counted) ==
  /\ alive
  /\ cycles[c] # IdleCycle
  /\ LET g == Head(cycles[c])
         thrown == r = "throw" \/ (r \in Sides /\ ~dbOpen)
     IN /\ r \in CheckResolutionResults(g.slug)
        /\ cycles' = [cycles EXCEPT ![c] = IF thrown THEN IdleCycle ELSE Tail(@)]
        /\ trades' = IF r \in Sides /\ ~thrown THEN ResolveGroup(trades, g.ids, r)
                     ELSE IF r = "null" THEN TimeoutGroup(trades, g.ids)
                     ELSE trades
        /\ nullPolls' = IF counted /\ r = "null" THEN CountNullPoll(g.slug) ELSE nullPolls
        /\ caught' = IF counted /\ thrown THEN TRUE ELSE caught
  /\ UNCHANGED <<now, alive, bettedMarkets, prices, marketSettled,
                 resolutionTimer, rmt, sub, mk>>
  /\ UNCHANGED raceVars
  /\ UNCHANGED <<sessionPnL, sessionTrades, ml, dbOpen, sig, fetchRetries>>
  /\ UNCHANGED edgeVars

\* checkResolution answers for the group at the head of the cycle: a throw
\* ends the callback in its catch, null moves on, a winner resolves every
\* trade of the group and moves on.  On a closed handle resolveTrade throws,
\* which the same catch takes.  With counted, the history variables record
\* the answer.
CycleResponse(c, r, counted) ==
  /\ alive
  /\ cycles[c] # IdleCycle
  /\ LET g == Head(cycles[c])
         thrown == r = "throw" \/ (r \in Sides /\ ~dbOpen)
     IN /\ r \in CheckResolutionResults(g.slug)
        /\ cycles' = [cycles EXCEPT ![c] = IF thrown THEN IdleCycle ELSE Tail(@)]
        /\ trades' = IF r \in Sides /\ ~thrown THEN ResolveGroup(trades, g.ids, r)
                     ELSE trades
        /\ nullPolls' = IF counted /\ r = "null" THEN CountNullPoll(g.slug) ELSE nullPolls
        /\ caught' = IF counted /\ thrown THEN TRUE ELSE caught
  /\ UNCHANGED <<now, alive, bettedMarkets, prices, marketSettled,
                 resolutionTimer, rmt, sub, mk>>
  /\ UNCHANGED raceVars
  /\ UNCHANGED <<sessionPnL, sessionTrades, ml, dbOpen, sig, fetchRetries>>
  /\ UNCHANGED edgeVars

(***************************************************************************)
(* resolveMarketTrades(market), split at its awaits.                       *)
(***************************************************************************)
\* The call: the pending trades of the slug are read; with none it returns.
RmtCall(w) ==
  /\ alive /\ rmt.pc = "idle"
  /\ LET pending == SelectSeq(GetTradesBySlug(w), LAMBDA i : trades[i].outcome = "NULL")
     IN rmt' = IF pending = <<>> THEN rmt
               ELSE [pc |-> "query", slug |-> w, pending |-> pending, attempt |-> 0]
  /\ UNCHANGED <<now, alive, trades, bettedMarkets, prices, marketSettled,
                 resolutionTimer, cycles, sub, mk, nullPolls>>
  /\ UNCHANGED raceVars
  /\ UNCHANGED sessionVars
  /\ UNCHANGED edgeVars

\* checkResolution answers: a winner resolves the pending trades and the
\* call returns; null starts the sleep; a throw leaves the call.
RmtResponse(r) ==
  /\ alive /\ rmt.pc = "query"
  /\ r \in CheckResolutionResults(rmt.slug)
  /\ trades' = IF r \in Sides THEN ResolveGroup(trades, rmt.pending, r) ELSE trades
  /\ rmt' = IF r = "null" THEN [rmt EXCEPT !.pc = "sleep"] ELSE IdleRmt
  /\ UNCHANGED <<now, alive, bettedMarkets, prices, marketSettled,
                 resolutionTimer, cycles, sub, mk, nullPolls>>
  /\ UNCHANGED raceVars
  /\ UNCHANGED sessionVars
  /\ UNCHANGED edgeVars

\* The sleep ends: the next attempt, or after the last one the timeout.
RmtWake ==
  /\ alive /\ rmt.pc = "sleep"
  /\ IF rmt.attempt + 1 < RESOLUTION_MAX_RETRIES
     THEN /\ rmt' = [rmt EXCEPT !.pc = "query", !.attempt = @ + 1]
          /\ UNCHANGED trades
     ELSE /\ trades' = TimeoutGroup(trades, rmt.pending)
          /\ rmt' = IdleRmt
  /\ UNCHANGED <<now, alive, bettedMarkets, prices, marketSettled,
                 resolutionTimer, cycles, sub, mk, nullPolls>>
  /\ UNCHANGED raceVars
  /\ UNCHANGED sessionVars
  /\ UNCHANGED edgeVars

(***************************************************************************)
(* Order race (clob.ts 56-188, index.ts 362-396).  An order on the         *)
(* exchange is [status, size_matched, price]; sizes are in fill units,     *)
(* OrderSize units being the whole order.                                  *)
(***************************************************************************)
OrderId(side) == <<"order", side>>

OtherSide(side) == IF side = "Up" THEN "Down" ELSE "Up"

NoOrder == [status |-> "none", size_matched |-> 0, price |-> 0]

\* The exchange accepts a limit buy: a resting order, nothing matched yet.
PostedOrder(price) == [status |-> "LIVE", size_matched |-> 0, price |-> price]

IdlePd == [pc |-> "idle", result |-> "none"]

IdleWf == [pc |-> "idle", i |-> 0, up |-> Null, down |-> Null,
           queue |-> <<>>, ret |-> Null, result |-> Null]

IdleSig == [pc |-> "idle", queue |-> <<>>, sent |-> <<>>, race |-> FALSE]

IdleMl == [pc |-> "top", slug |-> NoSub]

\* A live session that has not begun: index.ts 255-259, and the module
\* state of db.ts.
NoSession ==
  /\ sessionPnL = 0
  /\ sessionTrades = 0
  /\ ml = IdleMl
  /\ dbOpen = TRUE
  /\ sig = IdleSig
  /\ caught = FALSE
  /\ fetchRetries = 0

\* No race is in progress.
NoRace ==
  /\ orders = [s \in Sides |-> NoOrder]
  /\ pd = IdlePd
  /\ wf = IdleWf
  /\ aborted = FALSE
  /\ abortAt = "none"
  /\ cancelLog = <<>>

\* The exchange's handling of a cancel request: a resting order is
\* cancelled when the request goes through (ok); otherwise the order stays
\* as it is and the client call throws.
CancelOrder(ord, side, ok) ==
  IF ok /\ ord[side].status = "LIVE"
  THEN [ord EXCEPT ![side].status = "CANCELLED"]
  ELSE ord

\* The exchange matches one more unit of a resting order.
ExchangeFill(side) ==
  /\ orders[side].status = "LIVE"
  /\ orders' = [orders EXCEPT
       ![side].size_matched = @ + 1,
       ![side].status = IF orders[side].size_matched + 1 = OrderSize
                        THEN "MATCHED" ELSE "LIVE"]
  /\ UNCHANGED <<pd, wf, aborted, abortAt, cancelLog>>
  /\ UNCHANGED ledgerVars
  /\ UNCHANGED sessionVars
  /\ UNCHANGED edgeVars

\* A resting order is cancelled from outside the program.
ExternalCancel(side) ==
  /\ orders[side].status = "LIVE"
  /\ orders' = [orders EXCEPT ![side].status = "CANCELLED"]
  /\ UNCHANGED <<pd, wf, aborted, abortAt, cancelLog>>
  /\ UNCHANGED ledgerVars
  /\ UNCHANGED sessionVars
  /\ UNCHANGED edgeVars

PlaceResponses == {"ok", "noid", "throw"}

\* placeDualOrders up to the answer for the Up order (lines 67-79): posted,
\* answered without an order id, or createOrder / postOrder throws.
PlaceUpOrder(r) ==
  /\ alive /\ ml.pc = "race"
  /\ pd.pc = "idle" /\ pd.result = "none"
  /\ orders' = IF r = "ok" THEN [orders EXCEPT !["Up"] = PostedOrder(BUY_THRESHOLD)]
               ELSE orders
  /\ pd' = IF r = "ok" THEN [pd EXCEPT !.pc = "upPosted"]
           ELSE [pc |-> "done", result |-> "null"]
  /\ UNCHANGED <<wf, aborted, abortAt, cancelLog>>
  /\ UNCHANGED ledgerVars
  /\ UNCHANGED sessionVars
  /\ UNCHANGED edgeVars

\* placeDualOrders from there to the answer for the Down order (lines
\* 81-106): posted, both ids are returned; without an order id, the Up
\* order is to be cancelled; a throw lands in the catch, which returns null.
PlaceDownOrder(r) ==
  /\ alive
  /\ pd.pc = "upPosted"
  /\ orders' = IF r = "ok" THEN [orders EXCEPT !["Down"] = PostedOrder(BUY_THRESHOLD)]
               ELSE orders
  /\ pd' = CASE r = "ok" -> [pc |-> "done", result |-> "orders"]
             [] r = "noid" -> [pd EXCEPT !.pc = "cancelUp"]
             [] OTHER -> [pc |-> "done", result |-> "null"]
  /\ UNCHANGED <<wf, aborted, abortAt, cancelLog>>
  /\ UNCHANGED ledgerVars
  /\ UNCHANGED sessionVars
  /\ UNCHANGED edgeVars

\* cancelAllOrders([upOrderId]) of line 93, then return null.
PlaceCancelUp(ok) ==
  /\ alive
  /\ pd.pc = "cancelUp"
  /\ orders' = CancelOrder(orders, "Up", ok)
  /\ cancelLog' = Append(cancelLog, "Up")
  /\ pd' = [pc |-> "done", result |-> "null"]
  /\ UNCHANGED <<wf, aborted, abortAt>>
  /\ UNCHANGED ledgerVars
  /\ UNCHANGED sessionVars
  /\ UNCHANGED edgeVars

\* Variant of the result that swaps the two order ids.
FillResultSwapped(side, order) ==
  [filledSide |-> side, filledOrderId |-> OrderId(OtherSide(side)),
   cancelledOrderId |-> OrderId(side),
   fillPrice |-> order.price, fillSize |-> order.size_matched]

\* FillResult of lines 135-141 and 149-155.
FillResult(side, order) ==
  [filledSide |-> side, filledOrderId |-> OrderId(side),
   cancelledOrderId |-> OrderId(OtherSide(side)),
   fillPrice |-> order.price, fillSize |-> order.size_matched]

\* waitForFill is to cancel the orders of q and then return r.
CancelThenReturn(w, q, r) == [w EXCEPT !.pc = "cancel", !.queue = q, !.ret = r]

\* Variant of the loop head that leaves the loop without cancelling.
LoopHeadNoCancel(w, i) ==
  IF i < MAX_FILL_POLLS
  THEN IF aborted
       THEN [w EXCEPT !.pc = "cancel", !.i = i, !.queue = <<"Up", "Down">>, !.ret = Null]
       ELSE [w EXCEPT !.pc = "poll", !.i = i, !.up = Null, !.down = Null]
  ELSE [w EXCEPT !.pc = "done", !.i = i, !.result = Null]

\* Variant of the loop head that does not look at the abort signal.
LoopHeadNoAbort(w, i) ==
  IF i < MAX_FILL_POLLS
  THEN [w EXCEPT !.pc = "poll", !.i = i, !.up = Null, !.down = Null]
  ELSE [w EXCEPT !.pc = "cancel", !.i = i, !.queue = <<"Up", "Down">>, !.ret = Null]

\* The head of an iteration (lines 117-122) and the exit of the loop (lines
\* 170-172), with i the iteration counter.
LoopHead(w, i) ==
  IF i < MAX_FILL_POLLS
  THEN IF aborted
       THEN CancelThenReturn([w EXCEPT !.i = i], <<"Up", "Down">>, Null)
       ELSE [w EXCEPT !.pc = "poll", !.i = i, !.up = Null, !.down = Null]
  ELSE CancelThenReturn([w EXCEPT !.i = i], <<"Up", "Down">>, Null)

\* Variant of the evaluation of a poll that takes no notice of cancelled
\* orders.
AfterPollNoExternal(w, upOrder, downOrder) ==
  LET seen == [w EXCEPT !.up = Some(upOrder), !.down = Some(downOrder)]
  IN IF upOrder.size_matched > 0
     THEN [seen EXCEPT !.pc = "cancel", !.queue = <<"Down">>,
                       !.ret = Some(FillResult("Up", upOrder))]
     ELSE IF downOrder.size_matched > 0
     THEN [seen EXCEPT !.pc = "cancel", !.queue = <<"Up">>,
                       !.ret = Some(FillResult("Down", downOrder))]
     ELSE [seen EXCEPT !.pc = "sleep"]

\* Variant of the evaluation of a poll that looks at the Down order first.
AfterPollDownFirst(w, upOrder, downOrder) ==
  LET seen == [w EXCEPT !.up = Some(upOrder), !.down = Some(downOrder)]
  IN IF downOrder.size_matched > 0
     THEN CancelThenReturn(seen, <<"Up">>, Some(FillResult("Down", downOrder)))
     ELSE IF upOrder.size_matched > 0
     THEN CancelThenReturn(seen, <<"Down">>, Some(FillResult("Up", upOrder)))
     ELSE IF upOrder.status = "CANCELLED" /\ downOrder.status = "CANCELLED"
     THEN [seen EXCEPT !.pc = "done", !.result = Null]
     ELSE [seen EXCEPT !.pc = "sleep"]

\* Lines 130-161: what follows the two answers of a poll.
AfterPoll(w, upOrder, downOrder) ==
  LET seen == [w EXCEPT !.up = Some(upOrder), !.down = Some(downOrder)]
  IN IF upOrder.size_matched > 0
     THEN CancelThenReturn(seen, <<"Down">>, Some(FillResult("Up", upOrder)))
     ELSE IF downOrder.size_matched > 0
     THEN CancelThenReturn(seen, <<"Up">>, Some(FillResult("Down", downOrder)))
     ELSE IF upOrder.status = "CANCELLED" /\ downOrder.status = "CANCELLED"
     THEN [seen EXCEPT !.pc = "done", !.result = Null]
     ELSE [seen EXCEPT !.pc = "sleep"]

\* mainLive, lines 375-391: the orders are placed, the abort controller is
\* created and its timer armed, and waitForFill runs to its first await.
MainLiveWaitForFill ==
  /\ alive /\ ml.pc = "race"
  /\ pd.pc = "done" /\ pd.result = "orders"
  /\ wf.pc = "idle"
  /\ aborted' = FALSE
  /\ wf' = LoopHead(wf, 0)
  /\ UNCHANGED <<orders, pd, abortAt, cancelLog>>
  /\ UNCHANGED ledgerVars
  /\ UNCHANGED sessionVars
  /\ UNCHANGED edgeVars

\* Variant of the abort that interrupts a poll in flight: waitForFill drops
\* the poll and goes on to cancel both orders.
AbortTimerInterrupts ==
  /\ alive
  /\ wf.pc \in {"poll", "sleep", "cancel"}
  /\ ~aborted
  /\ aborted' = TRUE
  /\ abortAt' = IF wf.pc = "poll" /\ (wf.up # Null \/ wf.down # Null)
                THEN "pollAnswered" ELSE wf.pc
  /\ wf' = IF wf.pc = "poll" THEN CancelThenReturn(wf, <<"Up", "Down">>, Null) ELSE wf
  /\ UNCHANGED <<orders, pd, cancelLog>>
  /\ UNCHANGED ledgerVars
  /\ UNCHANGED sessionVars
  /\ UNCHANGED edgeVars

\* The timer of line 383 fires while waitForFill is at an await.  abortAt
\* records where: in the sleep, in a poll none of whose requests has been
\* answered, in a poll with one answer in, or in a cancellation.
AbortTimer ==
  /\ alive
  /\ wf.pc \in {"poll", "sleep", "cancel"}
  /\ ~aborted
  /\ aborted' = TRUE
  /\ abortAt' = IF wf.pc = "poll" /\ (wf.up # Null \/ wf.down # Null)
                THEN "pollAnswered" ELSE wf.pc
  /\ UNCHANGED <<orders, pd, wf, cancelLog>>
  /\ UNCHANGED ledgerVars
  /\ UNCHANGED sessionVars
  /\ UNCHANGED edgeVars

\* The first of the two getOrder requests of lines 125-128 is answered with
\* the order as the exchange holds it at that moment.
PollAnswerFirst(side) ==
  /\ alive
  /\ wf.pc = "poll" /\ wf.up = Null /\ wf.down = Null
  /\ wf' = IF side = "Up" THEN [wf EXCEPT !.up = Some(orders["Up"])]
           ELSE [wf EXCEPT !.down = Some(orders["Down"])]
  /\ UNCHANGED <<orders, pd, aborted, abortAt, cancelLog>>
  /\ UNCHANGED ledgerVars
  /\ UNCHANGED sessionVars
  /\ UNCHANGED edgeVars

\* The other request is answered, Promise.all resolves and lines 130-161
\* run up to the next await or the return.
PollAnswerSecond ==
  /\ alive
  /\ wf.pc = "poll" /\ (wf.up = Null) # (wf.down = Null)
  /\ wf' = AfterPoll(wf, IF wf.up = Null THEN orders["Up"] ELSE wf.up[1],
                         IF wf.down = Null THEN orders["Down"] ELSE wf.down[1])
  /\ UNCHANGED <<orders, pd, aborted, abortAt, cancelLog>>
  /\ UNCHANGED ledgerVars
  /\ UNCHANGED sessionVars
  /\ UNCHANGED edgeVars

\* Variant of the poll without its try / catch: the error leaves
\* waitForFill, which ends without a result.
PollRejectPropagates ==
  /\ alive
  /\ wf.pc = "poll"
  /\ wf' = [wf EXCEPT !.pc = "done", !.up = Null, !.down = Null, !.result = Null]
  /\ UNCHANGED <<orders, pd, aborted, abortAt, cancelLog>>
  /\ UNCHANGED ledgerVars
  /\ UNCHANGED sessionVars
  /\ UNCHANGED edgeVars

\* A getOrder request fails: the catch of lines 162-164 logs, and the sleep
\* of line 166 begins.
PollReject ==
  /\ alive
  /\ wf.pc = "poll"
  /\ wf' = [wf EXCEPT !.pc = "sleep", !.up = Null, !.down = Null]
  /\ UNCHANGED <<orders, pd, aborted, abortAt, cancelLog>>
  /\ UNCHANGED ledgerVars
  /\ UNCHANGED sessionVars
  /\ UNCHANGED edgeVars

\* Variant of cancelAllOrders without its try / catch: a failing request
\* throws into the catch of waitForFill's poll, and the sleep begins.
WaitCancelThrows(ok) ==
  /\ alive
  /\ wf.pc = "cancel"
  /\ orders' = CancelOrder(orders, Head(wf.queue), ok)
  /\ cancelLog' = Append(cancelLog, Head(wf.queue))
  /\ wf' = IF ~ok
           THEN [wf EXCEPT !.pc = "sleep", !.queue = <<>>]
           ELSE IF Tail(wf.queue) = <<>>
           THEN [wf EXCEPT !.pc = "done", !.queue = <<>>, !.result = wf.ret]
           ELSE [wf EXCEPT !.queue = Tail(@)]
  /\ UNCHANGED <<pd, aborted, abortAt>>
  /\ UNCHANGED ledgerVars
  /\ UNCHANGED sessionVars
  /\ UNCHANGED edgeVars

\* cancelAllOrders inside waitForFill: one cancelOrder request, its error
\* swallowed; after the last one waitForFill returns.
WaitCancel(ok) ==
  /\ alive
  /\ wf.pc = "cancel"
  /\ orders' = CancelOrder(orders, Head(wf.queue), ok)
  /\ cancelLog' = Append(cancelLog, Head(wf.queue))
  /\ wf' = IF Tail(wf.queue) = <<>>
           THEN [wf EXCEPT !.pc = "done", !.queue = <<>>, !.result = wf.ret]
           ELSE [wf EXCEPT !.queue = Tail(@)]
  /\ UNCHANGED <<pd, aborted, abortAt>>
  /\ UNCHANGED ledgerVars
  /\ UNCHANGED sessionVars
  /\ UNCHANGED edgeVars

\* The sleep of line 166 ends: i++ and the next loop head.
WaitWake ==
  /\ alive
  /\ wf.pc = "sleep"
  /\ wf' = LoopHead(wf, wf.i + 1)
  /\ UNCHANGED <<orders, pd, aborted, abortAt, cancelLog>>
  /\ UNCHANGED ledgerVars
  /\ UNCHANGED sessionVars
  /\ UNCHANGED edgeVars

(***************************************************************************)
(* mainLive: the head and the tail of one iteration of its loop            *)
(* (index.ts 291-431) and the end of the loop (433-436).                   *)
(***************************************************************************)
\* Variant of the guard that lets a total equal to the floor pass.
SessionLossPassed(pnl) == pnl < 0 - MAX_SESSION_LOSS

\* The guard of line 293.
SessionLossReached(pnl) == pnl <= 0 - MAX_SESSION_LOSS

\* Variant of the end of mainLive that stops the resolution loop and leaves
\* the handle open.
MainLiveTopNoClose ==
  /\ alive /\ ml.pc = "top"
  /\ IF SessionLossReached(sessionPnL)
     THEN /\ ml' = [ml EXCEPT !.pc = "halted"]
          /\ StopResolutionLoop
          /\ UNCHANGED dbOpen
     ELSE /\ ml' = [pc |-> "race", slug |-> GetCurrentMarketSlug]
          /\ UNCHANGED <<resolutionTimer, dbOpen>>
  /\ UNCHANGED <<now, alive, trades, bettedMarkets, prices, marketSettled,
                 cycles, rmt, sub, mk, nullPolls>>
  /\ UNCHANGED raceVars
  /\ UNCHANGED <<sessionPnL, sessionTrades, sig, caught, fetchRetries>>
  /\ UNCHANGED edgeVars

\* The head of an iteration: with the total at or below the floor the loop
\* is left, the resolution loop stopped and the handle closed; otherwise
\* the iteration goes on to the market of the current slug and its orders.
MainLiveTop ==
  /\ alive /\ ml.pc = "top"
  /\ IF SessionLossReached(sessionPnL)
     THEN /\ ml' = [ml EXCEPT !.pc = "halted"]
          /\ StopResolutionLoop
          /\ CloseDb
     ELSE /\ ml' = [pc |-> "race", slug |-> GetCurrentMarketSlug]
          /\ UNCHANGED <<resolutionTimer, dbOpen>>
  /\ UNCHANGED <<now, alive, trades, bettedMarkets, prices, marketSettled,
                 cycles, rmt, sub, mk, nullPolls>>
  /\ UNCHANGED raceVars
  /\ UNCHANGED <<sessionPnL, sessionTrades, sig, caught, fetchRetries>>
  /\ UNCHANGED edgeVars

\* placeDualOrders returned null: the window is skipped (lines 372-377).
MainLiveSkip ==
  /\ alive /\ ml.pc = "race"
  /\ pd.pc = "done" /\ pd.result = "null"
  /\ ml' = [ml EXCEPT !.pc = "rest"]
  /\ UNCHANGED ledgerVars
  /\ UNCHANGED raceVars
  /\ UNCHANGED <<sessionPnL, sessionTrades, dbOpen, sig, caught, fetchRetries>>
  /\ UNCHANGED edgeVars

\* waitForFill returned (lines 393-427): a fill is written to the ledger and
\* counted; sessionPnL is read for the log lines only.
MainLiveRecord ==
  /\ alive /\ ml.pc = "race"
  /\ wf.pc = "done"
  /\ ml' = [ml EXCEPT !.pc = "rest"]
  /\ IF wf.result # Null
     THEN LET fill == wf.result[1]
          IN /\ trades' = InsertLiveTrade(trades, ml.slug, <<ml.slug, fill.filledSide>>,
                                          fill.filledSide, fill.fillPrice,
                                          fill.filledOrderId, fill.cancelledOrderId,
                                          fill.fillSize)
             /\ sessionTrades' = sessionTrades + 1
     ELSE UNCHANGED <<trades, sessionTrades>>
  /\ UNCHANGED <<now, alive, bettedMarkets, prices, marketSettled,
                 resolutionTimer, cycles, rmt, sub, mk, nullPolls>>
  /\ UNCHANGED raceVars
  /\ UNCHANGED <<sessionPnL, dbOpen, sig, caught, fetchRetries>>
  /\ UNCHANGED edgeVars

\* The iteration's window has ended (lines 429-432): the loop goes back to
\* its head, and the next iteration has its own orders and abort controller.
MainLiveRest ==
  /\ alive /\ ml.pc = "rest"
  /\ GetCurrentMarketSlug > ml.slug
  /\ ml' = IdleMl
  /\ orders' = [s \in Sides |-> NoOrder]
  /\ pd' = IdlePd
  /\ wf' = IdleWf
  /\ aborted' = FALSE
  /\ abortAt' = "none"
  /\ cancelLog' = <<>>
  /\ UNCHANGED ledgerVars
  /\ UNCHANGED <<sessionPnL, sessionTrades, dbOpen, sig, caught, fetchRetries>>
  /\ UNCHANGED edgeVars

(***************************************************************************)
(* mainLive's SIGINT handler (index.ts 262-283).  The handler is a task of *)
(* its own: it runs when the program is at an await, never between the     *)
(* return of placeDualOrders or waitForFill and the code that follows it.  *)
(***************************************************************************)
\* Variant of the handler that closes the handle before it cancels.
SigintCloseFirst ==
  LET active == ml.pc = "race" /\ wf.pc \in {"poll", "sleep", "cancel"}
  IN /\ alive /\ sig.pc = "idle"
     /\ ~(ml.pc = "race" /\ (wf.pc = "done" \/ (pd.pc = "done" /\ wf.pc = "idle")))
     /\ aborted' = (aborted \/ active)
     /\ abortAt' = IF ~active \/ aborted THEN abortAt
                   ELSE IF wf.pc = "poll" /\ (wf.up # Null \/ wf.down # Null)
                   THEN "pollAnswered" ELSE wf.pc
     /\ IF active
        THEN /\ sig' = [pc |-> "cancel", queue |-> <<"Up", "Down">>,
                        sent |-> <<>>, race |-> TRUE]
             /\ CloseDb
             /\ UNCHANGED <<alive, resolutionTimer>>
        ELSE /\ sig' = [sig EXCEPT !.pc = "exited"]
             /\ alive' = FALSE
             /\ StopResolutionLoop
             /\ CloseDb
     /\ UNCHANGED <<orders, pd, wf, cancelLog>>
     /\ UNCHANGED <<now, trades, bettedMarkets, prices, marketSettled,
                    cycles, rmt, sub, mk, nullPolls>>
     /\ UNCHANGED <<sessionPnL, sessionTrades, ml, caught, fetchRetries>>
     /\ UNCHANGED edgeVars

\* The handler up to its first await: the abort controller of a race in
\* flight is signalled; with active orders the cancellation of both is
\* started, otherwise the handler runs through: resolution loop stopped,
\* statistics read, handle closed, process exited.
SigintLive ==
  LET active == ml.pc = "race" /\ wf.pc \in {"poll", "sleep", "cancel"}
  IN /\ alive /\ sig.pc = "idle"
     /\ ~(ml.pc = "race" /\ (wf.pc = "done" \/ (pd.pc = "done" /\ wf.pc = "idle")))
     /\ aborted' = (aborted \/ active)
     /\ abortAt' = IF ~active \/ aborted THEN abortAt
                   ELSE IF wf.pc = "poll" /\ (wf.up # Null \/ wf.down # Null)
                   THEN "pollAnswered" ELSE wf.pc
     /\ IF active
        THEN /\ sig' = [pc |-> "cancel", queue |-> <<"Up", "Down">>,
                        sent |-> <<>>, race |-> TRUE]
             /\ UNCHANGED <<alive, resolutionTimer, dbOpen>>
        ELSE /\ sig' = [sig EXCEPT !.pc = "exited"]
             /\ alive' = FALSE
             /\ StopResolutionLoop
             /\ CloseDb
     /\ UNCHANGED <<orders, pd, wf, cancelLog>>
     /\ UNCHANGED <<now, trades, bettedMarkets, prices, marketSettled,
                    cycles, rmt, sub, mk, nullPolls>>
     /\ UNCHANGED <<sessionPnL, sessionTrades, ml, caught, fetchRetries>>
     /\ UNCHANGED edgeVars

\* cancelAllOrders of line 273, one request at a time, failures swallowed;
\* after the last one the handler runs through to process.exit.
SigintCancel(ok) ==
  /\ alive /\ sig.pc = "cancel"
  /\ orders' = CancelOrder(orders, Head(sig.queue), ok)
  /\ IF Tail(sig.queue) = <<>>
     THEN /\ sig' = [sig EXCEPT !.pc = "exited", !.queue = <<>>,
                                !.sent = Append(@, Head(sig.queue))]
          /\ alive' = FALSE
          /\ StopResolutionLoop
          /\ CloseDb
     ELSE /\ sig' = [sig EXCEPT !.queue = Tail(@),
                                !.sent = Append(@, Head(sig.queue))]
          /\ UNCHANGED <<alive, resolutionTimer, dbOpen>>
  /\ UNCHANGED <<pd, wf, aborted, abortAt, cancelLog>>
  /\ UNCHANGED <<now, trades, bettedMarkets, prices, marketSettled,
                 cycles, rmt, sub, mk, nullPolls>>
  /\ UNCHANGED <<sessionPnL, sessionTrades, ml, caught, fetchRetries>>
  /\ UNCHANGED edgeVars

(***************************************************************************)
(* Specification of the price gate: one paper-mode process after another   *)
(* on one ledger, with the resolution loop.                                *)
(***************************************************************************)
InitGate ==
  /\ NoRace
  /\ NoEdge
  /\ NoSession
  /\ now = 0
  /\ alive = TRUE
  /\ trades = <<>>
  /\ bettedMarkets = {}
  /\ prices = <<>>
  /\ marketSettled = FALSE
  /\ resolutionTimer = TRUE
  /\ cycles = [c \in CycleIds |-> IdleCycle]
  /\ rmt = IdleRmt
  /\ sub = NoSub
  /\ mk = [w \in AllWindows |-> "open"]
  /\ nullPolls = [w \in AllWindows |-> 0]

NextGate ==
  \/ MainSubscribe
  \/ MainUnsubscribe
  \/ \E p \in TickPrices : Tick(UpToken(sub), p) \/ Tick(DownToken(sub), p)
  \/ \E p \in OtherPrices : Tick(OtherToken, p)
  \/ AdvanceClock
  \/ Crash
  \/ Start
  \/ \E w \in GateWindows : MarketClose(w)
  \/ \E w \in GateWindows, s \in Sides : MarketSettle(w, s)
  \/ CycleStart(1)
  \/ \E r \in {"throw", "null"} \cup Sides : CycleResponse(1, r, FALSE)
  \/ \E r \in {"null", "throw"} : MainFetchFails(r)

SpecGate == InitGate /\ [][NextGate]_vars

(***************************************************************************)
(* Specification of the reconciler: a process that starts on a ledger      *)
(* holding unresolved positions of earlier windows, with the resolution    *)
(* loop and resolveMarketTrades running against the same ledger.           *)
(***************************************************************************)
ReconStart == FRESH_PERIODS - 1

\* An unresolved paper position of window w, created while w was current.
OpenPosition(w, side, price) ==
  [market_slug |-> w, token_id |-> <<w, side>>, side |-> side,
   buy_price |-> price, outcome |-> "NULL", payout |-> Null,
   profit |-> Null, created_at |-> w, resolved_at |-> Null]

\* Ledgers with a position of window 0 and, in some, a later one of window
\* 10; and a ledger with two positions of window 0, one on each side, as two
\* processes on one ledger leave them.
InitLedgers ==
  LET first == {<<OpenPosition(0, s, 60000)>> : s \in Sides}
  IN first \cup {a \o <<OpenPosition(10, "Down", 85000)>> : a \in first}
           \cup {<<OpenPosition(0, "Up", 60000), OpenPosition(0, "Down", 85000)>>}

InitReconWith(ledgers) ==
  /\ NoRace
  /\ NoEdge
  /\ NoSession
  /\ now = ReconStart
  /\ alive = TRUE
  /\ trades \in ledgers
  /\ bettedMarkets = {trades[i].market_slug : i \in Ids(trades)}
  /\ prices = <<>>
  /\ marketSettled = FALSE
  /\ resolutionTimer = TRUE
  /\ cycles = [c \in CycleIds |-> IdleCycle]
  /\ rmt = IdleRmt
  /\ sub = NoSub
  /\ mk = [w \in AllWindows |-> "closed"]
  /\ nullPolls = [w \in AllWindows |-> 0]

InitRecon == InitReconWith(InitLedgers)

NextRecon ==
  \/ AdvanceClock
  \/ Crash
  \/ Start
  \/ \E w \in ReconWindows, s \in Sides : MarketSettle(w, s)
  \/ \E c \in CycleIds : CycleStart(c)
  \/ \E c \in CycleIds, r \in {"throw", "null"} \cup Sides : CycleResponse(c, r, FALSE)
  \/ \E w \in ReconWindows : RmtCall(w)
  \/ \E r \in {"throw", "null"} \cup Sides : RmtResponse(r)
  \/ RmtWake

SpecRecon == InitRecon /\ [][NextRecon]_vars

(***************************************************************************)
(* Specification of the retry budget: one position, the resolution loop    *)
(* one callback at a time, resolveMarketTrades, and the count of the       *)
(* loop's 'not settled' answers.                                           *)
(***************************************************************************)
InitBudget == InitReconWith({<<OpenPosition(0, s, 60000)>> : s \in Sides})

NextBudget ==
  \/ AdvanceClock
  \/ \E s \in Sides : MarketSettle(0, s)
  \/ CycleStart(1)
  \/ \E r \in {"throw", "null"} \cup Sides : CycleResponse(1, r, TRUE)
  \/ RmtCall(0)
  \/ \E r \in {"throw", "null"} \cup Sides : RmtResponse(r)
  \/ RmtWake

SpecBudget == InitBudget /\ [][NextBudget]_vars

(***************************************************************************)
(* Specification of one order race of mainLive: placeDualOrders, then      *)
(* waitForFill against an exchange that fills and cancels on its own.      *)
(***************************************************************************)
InitRace == InitGate

NextRace ==
  \/ MainLiveTop
  \/ MainLiveSkip
  \/ MainLiveRecord
  \/ \E r \in PlaceResponses : PlaceUpOrder(r)
  \/ \E r \in PlaceResponses : PlaceDownOrder(r)
  \/ \E ok \in BOOLEAN : PlaceCancelUp(ok)
  \/ MainLiveWaitForFill
  \/ AbortTimer
  \/ \E side \in Sides : PollAnswerFirst(side)
  \/ PollAnswerSecond
  \/ PollReject
  \/ \E ok \in BOOLEAN : WaitCancel(ok)
  \/ WaitWake
  \/ \E side \in Sides : ExchangeFill(side)
  \/ \E side \in Sides : ExternalCancel(side)

SpecRace == InitRace /\ [][NextRace]_vars

\* The same race when every request waitForFill awaits is answered or
\* fails, and its timers fire.
SpecRaceFair ==
  /\ SpecRace
  /\ WF_vars(MainLiveWaitForFill)
  /\ WF_vars(\E side \in Sides : PollAnswerFirst(side))
  /\ WF_vars(PollAnswerSecond)
  /\ WF_vars(\E ok \in BOOLEAN : WaitCancel(ok))
  /\ WF_vars(WaitWake)

(***************************************************************************)
(* Specification of the session guard: the head of mainLive's loop as a    *)
(* function of the running total it reads, the order placement that        *)
(* follows it, and the resolution loop on a ledger holding an unresolved   *)
(* position of an earlier window.  mainLive itself never assigns the       *)
(* total, so the totals the guard is exercised with are inputs.            *)
(***************************************************************************)
SessionTotals ==
  {0, 1 - MAX_SESSION_LOSS, 0 - MAX_SESSION_LOSS, 0 - MAX_SESSION_LOSS - 1}

InitGuard ==
  /\ NoRace
  /\ NoEdge
  /\ sessionPnL \in SessionTotals
  /\ sessionTrades = 0
  /\ ml = IdleMl
  /\ dbOpen = TRUE
  /\ sig = IdleSig
  /\ caught = FALSE
  /\ fetchRetries = 0
  /\ now = ReconStart
  /\ alive = TRUE
  /\ trades \in {<<OpenPosition(0, s, BUY_THRESHOLD)>> : s \in Sides}
  /\ bettedMarkets = {}
  /\ prices = <<>>
  /\ marketSettled = FALSE
  /\ resolutionTimer = TRUE
  /\ cycles = [c \in CycleIds |-> IdleCycle]
  /\ rmt = IdleRmt
  /\ sub = NoSub
  /\ mk = [w \in AllWindows |-> IF w < ReconStart THEN "closed" ELSE "open"]
  /\ nullPolls = [w \in AllWindows |-> 0]

NextGuard ==
  \/ MainLiveTop
  \/ \E r \in PlaceResponses : PlaceUpOrder(r)
  \/ \E r \in PlaceResponses : PlaceDownOrder(r)
  \/ \E ok \in BOOLEAN : PlaceCancelUp(ok)
  \/ MainLiveSkip
  \/ MainLiveRest
  \/ AdvanceClock
  \/ \E s \in Sides : MarketSettle(0, s)
  \/ CycleStart(1)
  \/ \E r \in {"throw", "null"} \cup Sides : CycleResponse(1, r, FALSE)

SpecGuard == InitGuard /\ [][NextGuard]_vars

(***************************************************************************)
(* Specification of shutdown: a live process with an unresolved position   *)
(* of a settled earlier window in its ledger, one order race, the          *)
(* resolution loop, and an interrupt arriving at any await.                *)
(***************************************************************************)
InitShutdown ==
  /\ NoRace
  /\ NoEdge
  /\ NoSession
  /\ now \in ReconWindows \ GateWindows
  /\ alive = TRUE
  /\ trades = <<OpenPosition(0, "Up", BUY_THRESHOLD)>>
  /\ bettedMarkets = {}
  /\ prices = <<>>
  /\ marketSettled = FALSE
  /\ resolutionTimer = TRUE
  /\ cycles = [c \in CycleIds |-> IdleCycle]
  /\ rmt = IdleRmt
  /\ sub = NoSub
  /\ mk = [w \in AllWindows |-> IF w = 0 THEN "Up" ELSE "open"]
  /\ nullPolls = [w \in AllWindows |-> 0]

NextShutdown ==
  \/ SigintLive
  \/ \E ok \in BOOLEAN : SigintCancel(ok)
  \/ MainLiveTop
  \/ MainLiveSkip
  \/ MainLiveRecord
  \/ \E r \in PlaceResponses : PlaceUpOrder(r)
  \/ \E r \in PlaceResponses : PlaceDownOrder(r)
  \/ \E ok \in BOOLEAN : PlaceCancelUp(ok)
  \/ MainLiveWaitForFill
  \/ \E side \in Sides : PollAnswerFirst(side)
  \/ PollAnswerSecond
  \/ \E ok \in BOOLEAN : WaitCancel(ok)
  \/ WaitWake
  \/ \E side \in Sides : ExchangeFill(side)
  \/ CycleStart(1)
  \/ \E r \in {"throw", "null"} \cup Sides : CycleResponse(1, r, FALSE)

SpecShutdown == InitShutdown /\ [][NextShutdown]_vars

(***************************************************************************)
(* Specification of the resolution loop that keeps running: the timer      *)
(* keeps firing, every query is answered, queries sent again and again do  *)
(* not throw every time, and those for a settled market are answered with  *)
(* the winner at some point.                                               *)
(* The clock and the settlement are the environment's and are not forced.  *)
(***************************************************************************)
InitLive == InitRecon

NextLive ==
  \/ AdvanceClock
  \/ \E w \in ReconWindows, s \in Sides : MarketSettle(w, s)
  \/ CycleStart(1)
  \/ \E r \in {"throw", "null"} \cup Sides : CycleResponse(1, r, FALSE)

SpecLive ==
  /\ InitLive /\ [][NextLive]_vars
  /\ WF_vars(CycleStart(1))
  /\ WF_vars(\E r \in {"throw", "null"} \cup Sides : CycleResponse(1, r, FALSE))
  /\ SF_vars(\E r \in {"null"} \cup Sides : CycleResponse(1, r, FALSE))
  /\ SF_vars(\E r \in Sides : CycleResponse(1, r, FALSE))

(***************************************************************************)
(* Specification of the ledger of a live process: a position recorded from *)
(* a fill of one unit or more, and the resolution loop.                    *)
(***************************************************************************)
InitLiveLedger ==
  /\ NoRace
  /\ NoEdge
  /\ NoSession
  /\ now \in ReconWindows \ GateWindows
  /\ alive = TRUE
  /\ trades \in {InsertLiveTrade(<<>>, now, <<now, s>>, s, BUY_THRESHOLD,
                                 OrderId(s), OrderId(OtherSide(s)), size) :
                   s \in Sides, size \in 1..OrderSize}
  /\ bettedMarkets = {}
  /\ prices = <<>>
  /\ marketSettled = FALSE
  /\ resolutionTimer = TRUE
  /\ cycles = [c \in CycleIds |-> IdleCycle]
  /\ rmt = IdleRmt
  /\ sub = NoSub
  /\ mk = [w \in AllWindows |-> "closed"]
  /\ nullPolls = [w \in AllWindows |-> 0]

NextLiveLedger ==
  \/ AdvanceClock
  \/ \E w \in ReconWindows, s \in Sides : MarketSettle(w, s)
  \/ CycleStart(1)
  \/ \E r \in {"throw", "null"} \cup Sides : CycleResponse(1, r, FALSE)

SpecLiveLedger == InitLiveLedger /\ [][NextLiveLedger]_vars

(***************************************************************************)
(* Specification of live trading across restarts: the order race of        *)
(* mainLive in one window, with the process ending at any point and a new  *)
(* live process starting in the same window.                               *)
(***************************************************************************)
\* A live process ends (crash, kill, exit).
CrashLive ==
  /\ alive
  /\ alive' = FALSE
  /\ bettedMarkets' = {}
  /\ resolutionTimer' = FALSE
  /\ FreshMemory
  /\ UNCHANGED <<now, trades, mk, nullPolls>>
  /\ UNCHANGED raceVars
  /\ UNCHANGED sessionVars
  /\ UNCHANGED edgeVars

\* A live process starts: strategy.ts is loaded (lines 9-23), mainLive sets
\* its locals (index.ts 255-259) and arms the resolution loop (line 286).
\* The orders are those of the new process: what an earlier process left
\* on the exchange is not looked at.  The ledger is kept within MaxTrades
\* rows by not starting again once it is full.
StartLive ==
  /\ ~alive
  /\ Len(trades) < MaxTrades
  /\ alive' = TRUE
  /\ bettedMarkets' = SeedBettedMarkets
  /\ resolutionTimer' = TRUE
  /\ FreshMemory
  /\ orders' = [s \in Sides |-> NoOrder]
  /\ pd' = IdlePd
  /\ wf' = IdleWf
  /\ aborted' = FALSE
  /\ abortAt' = "none"
  /\ cancelLog' = <<>>
  /\ sessionPnL' = 0
  /\ sessionTrades' = 0
  /\ ml' = IdleMl
  /\ dbOpen' = TRUE
  /\ sig' = IdleSig
  /\ caught' = FALSE
  /\ fetchRetries' = 0
  /\ UNCHANGED <<now, trades, mk, nullPolls>>
  /\ UNCHANGED edgeVars

InitRestart == InitGate

NextRestart ==
  \/ CrashLive
  \/ StartLive
  \/ MainLiveTop
  \/ MainLiveSkip
  \/ MainLiveRecord
  \/ \E r \in PlaceResponses : PlaceUpOrder(r)
  \/ \E r \in PlaceResponses : PlaceDownOrder(r)
  \/ \E ok \in BOOLEAN : PlaceCancelUp(ok)
  \/ MainLiveWaitForFill
  \/ \E side \in Sides : PollAnswerFirst(side)
  \/ PollAnswerSecond
  \/ \E ok \in BOOLEAN : WaitCancel(ok)
  \/ WaitWake
  \/ \E side \in Sides : ExchangeFill(side)

SpecRestart == InitRestart /\ [][NextRestart]_vars

(***************************************************************************)
(* Specification of market discovery: iterations of the loop of main or of *)
(* mainLive, each beginning at some time before the end of its window,     *)
(* with lookups that take time and are answered in every way.              *)
(***************************************************************************)
StartRemaining == {300, 60, 30, 20, 15, 14, 5, 4}

FetchDurations == {0, 1, 10}

FetchResults == {"closed", "null", "market", "throw"}

InitDiscovery ==
  /\ NoRace
  /\ NoSession
  /\ wc = NoReading
  /\ dl \in {IdleDl(mode) : mode \in Modes}
  /\ cr = NoQuery
  /\ wsk = NoStream
  /\ now = 0
  /\ alive = TRUE
  /\ trades = <<>>
  /\ bettedMarkets = {}
  /\ prices = <<>>
  /\ marketSettled = FALSE
  /\ resolutionTimer = TRUE
  /\ cycles = [c \in CycleIds |-> IdleCycle]
  /\ rmt = IdleRmt
  /\ sub = NoSub
  /\ mk = [w \in AllWindows |-> "open"]
  /\ nullPolls = [w \in AllWindows |-> 0]

NextDiscovery ==
  \/ \E rem \in StartRemaining, trade \in BOOLEAN : DiscoveryTop(rem, trade)
  \/ \E r \in FetchResults, took \in FetchDurations : DiscoveryFetch(r, took)
  \/ DiscoveryRetry
  \/ DiscoveryNext

SpecDiscovery == InitDiscovery /\ [][NextDiscovery]_vars

(***************************************************************************)
(* Specification of the settlement query: checkResolution applied to every *)
(* answer with up to MaxOutcomes labels and prices.                        *)
(***************************************************************************)
SeqsUpTo(S, n) == UNION {[1..k -> S] : k \in 0..n}

Answers ==
  [ok : BOOLEAN, parsed : BOOLEAN, resolved : BOOLEAN, closed : BOOLEAN,
   outcomes : SeqsUpTo(Sides, MaxOutcomes),
   outcomePrices : SeqsUpTo(PriceTexts, MaxOutcomes)]

InitQuery ==
  /\ NoRace
  /\ NoSession
  /\ wc = NoReading
  /\ dl = IdleDl("live")
  /\ cr \in {[NoQuery EXCEPT !.answer = a] : a \in Answers}
  /\ wsk = NoStream
  /\ now = 0
  /\ alive = TRUE
  /\ trades = <<>>
  /\ bettedMarkets = {}
  /\ prices = <<>>
  /\ marketSettled = FALSE
  /\ resolutionTimer = TRUE
  /\ cycles = [c \in CycleIds |-> IdleCycle]
  /\ rmt = IdleRmt
  /\ sub = NoSub
  /\ mk = [w \in AllWindows |-> "open"]
  /\ nullPolls = [w \in AllWindows |-> 0]

NextQuery == CheckResolutionReturn

SpecQuery == InitQuery /\ [][NextQuery]_vars

(***************************************************************************)
(* Specification of the price stream: one call of connectMarketWs, a       *)
(* network that opens and drops connections at will, price messages, and   *)
(* close() called at any moment.                                           *)
(***************************************************************************)
InitStream == InitGate

NextStream ==
  \/ WsStart
  \/ WsOpen
  \/ \E s \in Sides, p \in TickPrices : WsMessage(<<0, s>>, p)
  \/ WsDisconnect
  \/ WsReconnect
  \/ WsClose

SpecStream == InitStream /\ [][NextStream]_vars

(***************************************************************************)
(* Specification of the window clock: readings of a millisecond clock, at  *)
(* the start, inside and at the last millisecond of several periods.       *)
(***************************************************************************)
ClockPeriods == {0, 1, 2, 33, 7000}

ClockOffsets ==
  {0, 1, MS_PER_SECOND - 1, MS_PER_SECOND,
   (WINDOW_SECONDS - 1) * MS_PER_SECOND, WINDOW_SECONDS * MS_PER_SECOND - 1}

ClockReadings ==
  {k * WINDOW_SECONDS * MS_PER_SECOND + d : k \in ClockPeriods, d \in ClockOffsets}

InitClock == InitGate

NextClock == \E nowMs \in ClockReadings : ReadClock(nowMs)

SpecClock == InitClock /\ [][NextClock]_vars

(***************************************************************************)
(* Properties of the price gate.                                           *)
(***************************************************************************)
PositionsOf(w) == {i \in Ids(trades) : trades[i].market_slug = w}

\* C1: whatever ticks are delivered for a window, in any number and order
\* and on either token, the ledger never holds more than one position of
\* that window.
C1_AtMostOnePositionPerWindow ==
  \A w \in AllWindows : Cardinality(PositionsOf(w)) <= 1

\* C1 witness: an Up position exists and a qualifying tick on the Down token
\* of the same window is the latest Down price, with no second position.
C1_Witness ==
  /\ Len(trades) = 1
  /\ trades[1].side = "Up"
  /\ alive
  /\ DownToken(trades[1].market_slug) \in DOMAIN prices
  /\ prices[DownToken(trades[1].market_slug)] \in {60000, 84999}

\* C7 as stated: whenever a process runs on a ledger holding an unresolved
\* position of window W, its already-bet set contains W.
C7_SetHoldsEveryUnresolved ==
  \A i \in Ids(trades) :
    (alive /\ trades[i].outcome = "NULL") => trades[i].market_slug \in bettedMarkets

\* C7 amended: while a process is alive, the already-bet set, as rebuilt at
\* its start, contains the window of every unresolved position younger than
\* one hour; and an unresolved position of the window whose price stream the
\* process is connected to is in the set and is the only position of that
\* window.
C7_RestartKeepsWindowBet ==
  \A i \in Ids(trades) :
    (alive /\ trades[i].outcome = "NULL")
      => /\ trades[i].created_at > now - 12
            => trades[i].market_slug \in bettedMarkets
         /\ sub = trades[i].market_slug
            => /\ trades[i].market_slug \in bettedMarkets
               /\ PositionsOf(trades[i].market_slug) = {i}

\* C7 witness: the position's own tick is no longer in the price map, so the
\* process that created it is gone; the running process has received a
\* qualifying tick of the same window and the position is still the only one.
C7_Witness ==
  /\ alive
  /\ Len(trades) = 1
  /\ trades[1].outcome = "NULL"
  /\ sub = trades[1].market_slug
  /\ trades[1].token_id \notin DOMAIN prices
  /\ \E tok \in DOMAIN prices :
       /\ tok \in {UpToken(sub), DownToken(sub)}
       /\ prices[tok] >= 60000 /\ prices[tok] <= 84999

FinalizedAgainst(t, s) ==
  IF t.side = s
  THEN t.outcome = "win" /\ t.payout = <<100000>> /\ t.profit = <<100000 - t.buy_price>>
  ELSE t.outcome = "lose" /\ t.payout = <<0>> /\ t.profit = <<0 - t.buy_price>>

\* C5: when a settlement query for window W answers with winner S, in the
\* loop or in resolveMarketTrades, every unresolved position of W is
\* finalized in that step: win, payout 1.00, profit 1.00 - entry price on
\* side S; lose, payout 0, profit - entry price on the other side.
C5_SettlementFinalizesWindow ==
  [][\A s \in Sides :
       /\ \A c \in CycleIds :
            (cycles[c] # IdleCycle /\ CycleResponse(c, s, FALSE))
              => \A i \in PositionsOf(Head(cycles[c]).slug) :
                   trades[i].outcome = "NULL" => FinalizedAgainst(trades'[i], s)
       /\ (rmt.pc = "query" /\ RmtResponse(s))
              => \A i \in PositionsOf(rmt.slug) :
                   trades[i].outcome = "NULL" => FinalizedAgainst(trades'[i], s)
    ]_vars

\* C5 witness: two positions of one window, finalized in the same step, the
\* one on the winning side won and the other lost.
C5_Witness ==
  /\ Len(trades) = 2
  /\ trades[1].market_slug = trades[2].market_slug
  /\ trades[1].outcome = "win" /\ trades[1].payout = <<100000>>
  /\ trades[1].profit = <<40000>>
  /\ trades[2].outcome = "lose" /\ trades[2].payout = <<0>>
  /\ trades[2].profit = <<0 - 85000>>
  /\ trades[1].resolved_at = trades[2].resolved_at

\* C6: once a position's outcome is set, its outcome, payout, profit and
\* resolved timestamp are never written again.
C6_OutcomeWrittenOnce ==
  [][\A i \in Ids(trades) :
       trades[i].outcome # "NULL" => trades'[i] = trades[i]]_vars

\* C8: a position whose window has answered 'not settled' for the whole
\* retry budget is marked timeout with payout 0 and profit - entry price,
\* for the loop (by the count of its answers) and for resolveMarketTrades
\* (at the end of its last sleep).
C8_TimeoutAfterBudget ==
  [][/\ \A i \in Ids(trades) :
          (nullPolls'[trades[i].market_slug] >= RESOLUTION_MAX_RETRIES
             /\ mk'[trades[i].market_slug] \notin Sides)
            => /\ trades'[i].outcome = "timeout"
               /\ trades'[i].payout = <<0>>
               /\ trades'[i].profit = <<0 - trades[i].buy_price>>
     /\ (RmtWake /\ rmt.attempt + 1 >= RESOLUTION_MAX_RETRIES)
            => \A i \in PositionsOf(rmt.slug) :
                 trades[i].outcome = "NULL" => trades'[i].outcome = "timeout"
    ]_vars

(***************************************************************************)
(* Properties of the order race.                                           *)
(***************************************************************************)
\* C2: once waitForFill has returned, the Up order and the Down order never
\* both hold a filled quantity > 0.
C2_NeverBothFilled ==
  wf.pc = "done"
    => ~(orders["Up"].size_matched > 0 /\ orders["Down"].size_matched > 0)

\* The answers of the last completed poll.
Seen(side) == IF side = "Up" THEN wf.up[1] ELSE wf.down[1]

\* C3: when the poll that ends the wait reports side A with a filled
\* quantity > 0 and side B with none, waitForFill returns A as the filled
\* side, A's order id as filledOrderId, B's as cancelledOrderId, the
\* reported quantity as fillSize, and the only cancellation request sent is
\* the one for B's order (A = Up and A = Down).
C3_FirstFillWins ==
  \A a \in Sides :
    (/\ wf.pc = "done" /\ wf.up # Null /\ wf.down # Null
     /\ Seen(a).size_matched > 0
     /\ Seen(OtherSide(a)).size_matched = 0)
      => /\ wf.result = <<[filledSide |-> a, filledOrderId |-> OrderId(a),
                           cancelledOrderId |-> OrderId(OtherSide(a)),
                           fillPrice |-> 60000,
                           fillSize |-> Seen(a).size_matched]>>
         /\ cancelLog = <<OtherSide(a)>>

\* C3 witness: the wait ended on a poll reporting a partial fill of the Down
\* order and none of the Up order.
C3_Witness ==
  /\ wf.pc = "done" /\ wf.up # Null /\ wf.down # Null
  /\ Seen("Down").size_matched = 1
  /\ Seen("Up").size_matched = 0
  /\ wf.result # Null
  /\ cancelLog = <<"Up">>

\* C4 as stated: when the abort signal is set before any poll has reported
\* a fill, in the sleep or while a poll is unanswered, waitForFill sends a
\* cancellation for both orders and returns no result.
C4_AbortAnywhereCancelsBoth ==
  (wf.pc = "done" /\ abortAt \in {"sleep", "poll"})
    => wf.result = Null /\ cancelLog = <<"Up", "Down">>

\* C4 amended: the signal is read at the head of an iteration only.  Set
\* during the sleep, it makes waitForFill cancel both orders and return no
\* result, whatever the next poll would have reported.  Set while a poll is
\* in flight, it is read after that poll: a fill the poll reports is
\* returned with one cancellation for the other side, two orders reported
\* cancelled end the wait with no cancellation, and otherwise both orders
\* are cancelled and no result is returned.
C4_AbortReadAtLoopHead ==
  /\ (wf.pc = "done" /\ abortAt = "sleep")
       => wf.result = Null /\ cancelLog = <<"Up", "Down">>
  /\ (wf.pc = "done" /\ abortAt \in {"poll", "pollAnswered"})
       => \/ wf.result = Null /\ cancelLog = <<"Up", "Down">>
          \/ /\ wf.result # Null
             /\ Seen(wf.result[1].filledSide).size_matched > 0
             /\ cancelLog = <<OtherSide(wf.result[1].filledSide)>>
          \/ /\ wf.result = Null /\ cancelLog = <<>>
             /\ wf.up # Null /\ wf.down # Null
             /\ Seen("Up").status = "CANCELLED"
             /\ Seen("Down").status = "CANCELLED"

\* C4 witness: the signal was set during the sleep, an order had been
\* matched in part by then or before its cancellation, and waitForFill
\* returned no result after cancelling both.
C4_Witness ==
  /\ wf.pc = "done" /\ abortAt = "sleep"
  /\ wf.result = Null
  /\ cancelLog = <<"Up", "Down">>
  /\ orders["Up"].size_matched > 0

\* C10: when placeDualOrders returns no result, either no order was placed
\* and no cancellation was sent, or the Up order was placed and one
\* cancellation was sent for it.
C10_NoOrderLeftOpen ==
  (pd.pc = "done" /\ pd.result = "null")
    => IF orders["Up"].status = "none"
       THEN cancelLog = <<>>
       ELSE cancelLog = <<"Up">>

\* C11: waitForFill sends at most MAX_FILL_POLLS polls; when the budget is
\* used up it sends a cancellation for both orders and returns no result;
\* and once called it returns.
C11_WaitForFillTerminates ==
  /\ [](wf.i <= 130 /\ (wf.pc = "poll" => wf.i < 130))
  /\ []((wf.pc = "done" /\ wf.i = 130)
          => wf.result = Null /\ cancelLog = <<"Up", "Down">>)
  /\ (wf.pc # "idle") ~> (wf.pc = "done")

\* C11 witness: the budget was used up with no abort, and waitForFill
\* returned no result after cancelling both orders.
C11_Witness ==
  /\ wf.pc = "done" /\ wf.i = 130 /\ ~aborted
  /\ wf.result = Null
  /\ cancelLog = <<"Up", "Down">>

\* C12: when the poll that ends the wait reports both orders CANCELLED and
\* neither with a filled quantity, waitForFill has returned no result at
\* that poll, without sending a cancellation, and mainLive records no
\* position for the window.
C12_BothCancelledEndsRace ==
  (/\ wf.pc = "done" /\ wf.up # Null /\ wf.down # Null
   /\ \A side \in Sides :
        Seen(side).status = "CANCELLED" /\ Seen(side).size_matched = 0)
    => /\ wf.result = Null
       /\ cancelLog = <<>>
       /\ trades = <<>>

\* C12 witness: both orders were seen cancelled and unfilled, and mainLive
\* has gone past the recording step with an empty ledger.
C12_Witness ==
  /\ ml.pc = "rest"
  /\ wf.pc = "done" /\ wf.up # Null /\ wf.down # Null
  /\ Seen("Up").status = "CANCELLED" /\ Seen("Up").size_matched = 0
  /\ Seen("Down").status = "CANCELLED" /\ Seen("Down").size_matched = 0
  /\ wf.result = Null
  /\ trades = <<>>

\* C13: a settlement query of the resolution loop that fails, by throwing
\* or by an answer that cannot be read (null), leaves every position as it
\* was, does not end the process or disarm the timer, and a throw frees the
\* callback's slot; from then on the loop is still armed.
C13_QueryFailureIsNotFatal ==
  /\ [][\A r \in {"throw", "null"} :
          (cycles[1] # IdleCycle /\ CycleResponse(1, r, TRUE))
            => /\ trades' = trades
               /\ alive' /\ resolutionTimer' /\ dbOpen'
               /\ r = "throw" => cycles'[1] = IdleCycle]_vars
  /\ [](caught => alive /\ resolutionTimer)

\* C13 witness: the loop has caught an error, and a later answer has
\* finalized the position.
C13_Witness ==
  /\ caught
  /\ nullPolls[0] > 0
  /\ Len(trades) = 1 /\ trades[1].outcome \in {"win", "lose"}
  /\ alive /\ resolutionTimer

\* C14: a failing market lookup never ends the process: after any failure
\* of fetchMarket in the discovery loop the process is still running with
\* its ledger open.
C14_DiscoveryFailureIsNotFatal ==
  [][\A r \in {"null", "throw"} : MainFetchFails(r) => alive' /\ dbOpen']_vars

C16_FillMovesRunningTotal ==
  [][(MainLiveRecord /\ wf.result # Null)
       => sessionPnL' = sessionPnL - wf.result[1].fillPrice * wf.result[1].fillSize]_vars

C18_HandleReleasedLast ==
  /\ [](~dbOpen => /\ sig.pc = "exited"
                   /\ ~resolutionTimer
                   /\ ~alive
                   /\ sig.race => aborted /\ sig.sent = <<"Up", "Down">>)
  /\ [](sig.pc = "cancel" => dbOpen /\ aborted)
  /\ [][~dbOpen => trades' = trades /\ cycles' = cycles /\ ~dbOpen']_vars

\* C18 witness: the interrupt arrived during a race, both cancels were sent,
\* and the handle is closed; the position recorded by the race while the
\* handler was waiting is in the ledger.
C18_Witness ==
  /\ ~dbOpen
  /\ sig.race /\ sig.sent = <<"Up", "Down">> /\ aborted
  /\ Len(trades) = 2

\* The unresolved positions of window w.
UnresolvedOf(w) == {i \in PositionsOf(w) : trades[i].outcome = "NULL"}

\* C19 as stated: a 'not settled' answer for window W leaves the ledger as
\* it is, and every position of W that is still unresolved after such an
\* answer is one a later cycle reads, whatever its age.
C19_NotSettledQueriedAgain ==
  /\ [][(cycles[1] # IdleCycle /\ CycleResponse(1, "null", TRUE))
          => trades' = trades]_vars
  /\ [](\A w \in AllWindows : \A i \in UnresolvedOf(w) :
          nullPolls[w] > 0 => IsOpenTrade(trades[i]))

\* C19 amended: a 'not settled' answer for window W leaves the ledger as it
\* is and the callback goes on to its next window with the timer armed; a
\* cycle that starts queries exactly the unresolved positions created less
\* than an hour before, so W is queried again only while its position is
\* that young.
C19_NotSettledQueriedAgainWithinHour ==
  /\ [][(cycles[1] # IdleCycle /\ CycleResponse(1, "null", TRUE))
          => /\ trades' = trades
             /\ cycles'[1] = Tail(cycles[1])
             /\ alive' /\ resolutionTimer']_vars
  /\ [][CycleStart(1)
          => \A w \in AllWindows : \A i \in UnresolvedOf(w) :
               (trades[i].created_at > now - FRESH_PERIODS)
                 <=> \E k \in 1..Len(cycles'[1]) :
                       /\ cycles'[1][k].slug = w
                       /\ \E j \in 1..Len(cycles'[1][k].ids) : cycles'[1][k].ids[j] = i]_vars

\* C19 witness: window 0 has been answered 'not settled', its position is
\* unchanged, and a later cycle has its query for window 0 in flight.
C19_Witness ==
  /\ nullPolls[0] > 0
  /\ UnresolvedOf(0) # {}
  /\ cycles[1] # IdleCycle /\ Head(cycles[1]).slug = 0

\* After a tick, the latest prices of both sides of the subscribed window
\* are known and above the reject ceiling.
BothAboveAfterTick ==
  /\ UpToken(sub) \in DOMAIN prices' /\ DownToken(sub) \in DOMAIN prices'
  /\ prices'[UpToken(sub)] > BUY_MAX_PRICE
  /\ prices'[DownToken(sub)] > BUY_MAX_PRICE

AnyTick ==
  \/ \E p \in TickPrices : Tick(UpToken(sub), p) \/ Tick(DownToken(sub), p)
  \/ \E p \in OtherPrices : Tick(OtherToken, p)

\* C20 as stated: whenever a tick leaves both sides of the current window
\* above the ceiling the flag is up, with or without a position of that
\* window; clearMarketState lowers it.
C20_FlagIndependentOfEntry ==
  /\ [][(AnyTick /\ BothAboveAfterTick) => marketSettled']_vars
  /\ [][MainUnsubscribe => ~marketSettled']_vars

\* C20 amended: a tick raises the flag exactly when it leaves both sides of
\* the current window above the ceiling and the window has not been bet on;
\* with a position of the window already there the flag stays down; once
\* up it stays up until clearMarketState lowers it.
C20_FlagRaisedOnlyBeforeEntry ==
  /\ [][AnyTick => (marketSettled' <=>
                      \/ marketSettled
                      \/ (sub \notin bettedMarkets /\ BothAboveAfterTick))]_vars
  /\ [][MainUnsubscribe => ~marketSettled']_vars

\* C20 witness: the flag is up for a window without a position.
C20_Witness ==
  /\ alive /\ sub # NoSub
  /\ marketSettled
  /\ PositionsOf(sub) = {}
  /\ prices[UpToken(sub)] > BUY_MAX_PRICE /\ prices[DownToken(sub)] > BUY_MAX_PRICE

\* C21 as stated: a tick on a token id that is neither of the market's two
\* leaves the ledger, the set of windows bet on, the price map and the
\* settled-early flag as they were.
C21_UnmatchedTickNoOp ==
  [][\A p \in OtherPrices : Tick(OtherToken, p)
       => UNCHANGED <<trades, bettedMarkets, prices, marketSettled>>]_vars

\* C21 amended: such a tick creates no position and marks no window as bet;
\* its price is stored in the price map under the unmatched id, the prices
\* of all other ids stay, and the flag is left alone unless the stored
\* prices of both sides are above the ceiling for a window not bet on.
C21_UnmatchedTickOnlyStoresPrice ==
  [][\A p \in OtherPrices : Tick(OtherToken, p)
       => /\ UNCHANGED <<trades, bettedMarkets>>
          /\ DOMAIN prices' = DOMAIN prices \cup {OtherToken}
          /\ prices'[OtherToken] = p
          /\ \A t \in DOMAIN prices \ {OtherToken} : prices'[t] = prices[t]
          /\ marketSettled' <=> \/ marketSettled
                                \/ (sub \notin bettedMarkets /\ BothAboveAfterTick)]_vars

\* C21 witness: a qualifying price has arrived on an unmatched id for a
\* window without a position, and there is still none.
C21_Witness ==
  /\ alive /\ sub # NoSub
  /\ OtherToken \in DOMAIN prices /\ PriceQualifies(prices[OtherToken])
  /\ UpToken(sub) \notin DOMAIN prices /\ DownToken(sub) \notin DOMAIN prices
  /\ trades = <<>> /\ bettedMarkets = {}

\* The timestamp a slug carries.
SlugTs(slug) == ParseInt(slug[Len(slug)])

\* C22: for every reading now of the clock, the slug carries
\* ts = floor(floor(now / 1000) / 300) * 300, its end time is
\* (ts + 300) * 1000, so ts * 1000 <= now < end time and the two are 300000
\* apart; two readings in the same 300 s period give the same slug; and
\* taking a reading changes nothing but the reading.
C22_WindowOfClock ==
  /\ [](wc.slug # <<>> =>
          /\ SlugTs(wc.slug) = ((wc.ms \div 1000) \div 300) * 300
          /\ wc.endTime = (SlugTs(wc.slug) + 300) * 1000
          /\ SlugTs(wc.slug) * 1000 <= wc.ms /\ wc.ms < wc.endTime
          /\ wc.endTime - SlugTs(wc.slug) * 1000 = 300000
          /\ (wc.prevSlug # <<>> /\ wc.prevMs \div 300000 = wc.ms \div 300000)
               => wc.slug = wc.prevSlug)
  /\ [][(\E nowMs \in ClockReadings : ReadClock(nowMs))
          => UNCHANGED <<ledgerVars, raceVars, sessionVars>>]_vars

\* C22 witness: two different readings of one period, the second one its
\* last millisecond, with the same slug of a multi-digit timestamp.
C22_Witness ==
  /\ wc.prevSlug # <<>> /\ wc.prevMs # wc.ms
  /\ wc.slug = wc.prevSlug
  /\ wc.ms = wc.endTime - 1
  /\ Len(wc.slug[Len(wc.slug)]) > 1

\* C23: a cancel request that fails is not an error.  Whether the request
\* goes through or not, cancelAllOrders goes on to the next id of its list
\* and, after the last one, waitForFill returns what it was about to
\* return: the fill it saw, unchanged, or no result.
C23_CancelFailureIsNotAnError ==
  /\ [][\A ok \in BOOLEAN : WaitCancel(ok)
          => /\ cancelLog' = Append(cancelLog, Head(wf.queue))
             /\ wf'.ret = wf.ret
             /\ IF Len(wf.queue) > 1
                THEN wf'.pc = "cancel" /\ wf'.queue = Tail(wf.queue)
                ELSE wf'.pc = "done" /\ wf'.result = wf.ret]_vars
  /\ [](wf.pc = "done" /\ wf.result # Null
          => /\ wf.result = wf.ret
             /\ wf.result[1].filledSide = "Up"
                  => wf.result = Some(FillResult("Up", wf.up[1]))
             /\ wf.result[1].filledSide = "Down"
                  => wf.result = Some(FillResult("Down", wf.down[1])))
  /\ [](wf.pc = "done" /\ wf.result = Null /\ cancelLog # <<>>
          => cancelLog = <<"Up", "Down">>)

\* C23 witness: the Up fill was returned although the cancellation of the
\* Down order failed and left it resting.
C23_Witness ==
  /\ wf.pc = "done" /\ wf.result # Null
  /\ wf.result[1].filledSide = "Up"
  /\ cancelLog = <<"Down">>
  /\ orders["Down"].status = "LIVE"

SettledUnresolved(i) ==
  /\ i \in Ids(trades)
  /\ trades[i].outcome = "NULL"
  /\ mk[trades[i].market_slug] \in Sides

Finalized(i) == i \in Ids(trades) /\ trades[i].outcome \in {"win", "lose"}

\* Position i was created an hour ago or more.
HourOld(i) == i \in Ids(trades) /\ ~(trades[i].created_at > now - FRESH_PERIODS)

\* C25 as stated: with the loop running and its queries succeeding in the
\* end, every unresolved position of a settled window is eventually
\* finalized as win or lose.
C25_EventuallyFinalized ==
  \A i \in 1..MaxTrades : SettledUnresolved(i) ~> Finalized(i)

\* C25 amended: such a position is eventually finalized as win or lose
\* unless it first becomes one hour old; and one that has become one hour
\* old with no callback holding it stays unresolved for good.
C25_EventuallyFinalizedWhileFresh ==
  /\ \A i \in 1..MaxTrades :
       SettledUnresolved(i)
         ~> (Finalized(i) \/ HourOld(i))
  /\ [][\A i \in Ids(trades) :
          (trades[i].outcome = "NULL" /\ HourOld(i) /\ cycles[1] = IdleCycle)
            => trades'[i] = trades[i]]_vars

\* C25 witness: a position whose window settled while it was unresolved has
\* been finalized by the loop.
C25_Witness ==
  /\ mk[0] \in Sides
  /\ Finalized(1)
  /\ trades[1].resolved_at = Some(now) /\ trades[1].created_at > now - FRESH_PERIODS

\* C26: a finalized live position has profit = payout - entry price x size,
\* whatever its size.
C26_ProfitAccountsForSize ==
  \A i \in Ids(trades) :
    trades[i].outcome \in {"win", "lose"}
      => trades[i].profit
           = Some(trades[i].payout[1] - trades[i].buy_price * trades[i].size)

\* The ids a callback holds in its work list.
HeldBy(c) ==
  {cycles[c][k].ids[j] : <<k, j>> \in
     {<<k, j>> \in (1..Len(cycles[c])) \X (1..MaxTrades) : j <= Len(cycles[c][k].ids)}}

\* C27 as stated: every position a cycle queries, and every position it
\* finalizes, is less than one hour old at that moment.
C27_OldPositionNeverPolled ==
  [][\A r \in {"throw", "null"} \cup Sides :
       (cycles[1] # IdleCycle /\ CycleResponse(1, r, FALSE))
         => \A i \in HeldBy(1) : ~HourOld(i)]_vars

\* C27 amended: the work list a cycle reads when it starts holds exactly the
\* positions that are unresolved and less than one hour old at that moment,
\* one group per window; an unresolved position that is an hour old and in
\* no work list in flight is never changed.  (A position in the work list
\* is still queried and finalized by that cycle if it turns one hour old
\* while the cycle is waiting for answers.)
C27_WorkListIsFreshAtCycleStart ==
  /\ [][CycleStart(1)
          => /\ HeldBy(1)' = {i \in Ids(trades) :
                               /\ trades[i].outcome = "NULL"
                               /\ trades[i].created_at > now - FRESH_PERIODS}
             /\ \A k, l \in 1..Len(cycles'[1]) :
                  cycles'[1][k].slug = cycles'[1][l].slug => k = l]_vars
  /\ [][\A i \in Ids(trades) :
          (trades[i].outcome = "NULL" /\ HourOld(i) /\ i \notin HeldBy(1))
            => trades'[i] = trades[i]]_vars

\* C27 witness: a cycle is in flight for the later window only, while the
\* position of window 0 is unresolved and one hour old.
C27_Witness ==
  /\ Len(trades) = 2
  /\ trades[1].outcome = "NULL" /\ HourOld(1)
  /\ cycles[1] # IdleCycle
  /\ HeldBy(1) = {2}

\* C28: in live mode the ledger never holds two positions of one window.
C28_OnePositionPerWindowLive ==
  \A i, j \in Ids(trades) :
    trades[i].market_slug = trades[j].market_slug => i = j

\* The two answers of the poll that waitForFill evaluated last both report
\* a filled quantity above zero.
BothFilledInPoll ==
  /\ wf.up # Null /\ wf.down # Null
  /\ wf.up[1].size_matched > 0
  /\ wf.down[1].size_matched > 0

\* C29: when one poll reports both orders with a filled quantity above
\* zero, waitForFill takes Up as the filled side with the quantity that
\* poll reported, sends one cancellation, for the Down order, and returns
\* that result; mainLive records one position, on the Up side.
C29_BothFilledUpWins ==
  BothFilledInPoll
    => /\ wf.pc \in {"cancel", "done"}
       /\ wf.ret = Some(FillResult("Up", wf.up[1]))
       /\ wf.pc = "cancel" => (wf.queue = <<"Down">> /\ cancelLog = <<>>)
       /\ wf.pc = "done" => (wf.result = wf.ret /\ cancelLog = <<"Down">>)
       /\ ml.pc = "race" => trades = <<>>
       /\ ml.pc = "rest"
            => /\ Len(trades) = 1
               /\ trades[1].side = "Up"
               /\ trades[1].order_id = OrderId("Up")
               /\ trades[1].cancelled_order_id = OrderId("Down")
               /\ trades[1].size = wf.up[1].size_matched

\* C29 witness: the race ended on a poll that saw both orders filled, and
\* the position is in the ledger.
C29_Witness ==
  /\ BothFilledInPoll
  /\ ml.pc = "rest"
  /\ Len(trades) = 1
  /\ cancelLog = <<"Down">>

\* C30: a failing poll leaves waitForFill running, in the sleep between two
\* polls, with the attempt counter, the orders, the cancellations sent and
\* mainLive as they were; the end of the sleep counts the attempt and,
\* with attempts left and no abort, the next poll is sent.  While
\* waitForFill sleeps it has sent no cancellation and returned nothing.
C30_PollErrorIsNoInformation ==
  /\ [][PollReject
          => /\ wf'.pc = "sleep"
             /\ wf'.i = wf.i
             /\ wf'.result = Null /\ wf'.ret = Null
             /\ cancelLog' = cancelLog /\ orders' = orders
             /\ ml' = ml /\ alive' /\ trades' = trades]_vars
  /\ [][(wf.pc = "sleep" /\ WaitWake)
          => /\ wf'.i = wf.i + 1
             /\ (wf.i + 1 < MAX_FILL_POLLS /\ ~aborted) => wf'.pc = "poll"
             /\ (wf.i + 1 >= MAX_FILL_POLLS \/ aborted) => wf'.pc = "cancel"]_vars
  /\ [](wf.pc = "sleep"
          => /\ cancelLog = <<>>
             /\ wf.result = Null
             /\ ml.pc = "race")

\* C30 witness: a poll after the first one has failed, and waitForFill is in
\* the sleep that follows it with nothing cancelled.
C30_Witness ==
  /\ wf.pc = "sleep"
  /\ wf.up = Null /\ wf.down = Null
  /\ wf.i > 0
  /\ cancelLog = <<>>
  /\ ml.pc = "race"


\* C31: in live mode the orders of a window are placed with at least 15
\* seconds left before the window's end.
C31_OrdersPlacedWithTimeLeft ==
  (dl.mode = "live" /\ dl.pc = "engaged") => dl.engagedAt[1] >= MIN_REMAINING_LIVE

\* C32: a lookup answered "closed" ends the discovery of the window at
\* once, with nothing subscribed or placed; a window is looked up at most
\* MAX_FETCH_RETRIES times, a "not found" answer before the last of them is
\* followed by another lookup, and after the last one the window is
\* skipped; a skipped window is left only by the loop going back to its
\* head once the window has ended.
C32_DiscoveryPerWindow ==
  /\ [](dl.attempts <= MAX_FETCH_RETRIES)
  /\ []((dl.result = "closed" /\ dl.pc # "top")
          => (dl.pc = "skip" /\ dl.engagedAt = Null))
  /\ []((dl.result = "null" /\ dl.pc # "top")
          => /\ dl.fetchRetries = dl.attempts
             /\ dl.engagedAt = Null
             /\ IF dl.attempts < MAX_FETCH_RETRIES
                THEN dl.pc \in {"retry", "fetch"}
                ELSE dl.pc = "skip")
  /\ [][dl.pc = "retry" => (dl'.pc = "fetch" /\ dl'.attempts = dl.attempts)]_vars
  /\ [][dl.pc = "skip" => dl' = IdleDl(dl.mode)]_vars
  /\ [](dl.pc = "engaged" => dl.result = "market")

\* C32 witness: the third lookup of a window was answered "not found" and
\* the window is skipped.
C32_Witness ==
  /\ dl.pc = "skip"
  /\ dl.result = "null"
  /\ dl.attempts = MAX_FETCH_RETRIES


\* The indices of the outcome prices that are at least 0.999.
WinnerIndices(a) ==
  {k \in 1..Len(a.outcomePrices) : AtWinnerPrice(a.outcomePrices[k])}

\* C33: checkResolution returns the first outcome whose price is at least
\* 0.999 when the response is ok and parses, the two lists have one length,
\* such a price exists and the market is flagged resolved or closed; in
\* every other case it returns null.
C33_WinnerOnlyWhenSettled ==
  cr.returned
    => LET a == cr.answer
       IN IF /\ a.ok /\ a.parsed
             /\ Len(a.outcomes) = Len(a.outcomePrices)
             /\ (a.resolved \/ a.closed)
             /\ WinnerIndices(a) # {}
          THEN /\ cr.result = a.outcomes[CHOOSE k \in WinnerIndices(a) :
                                           \A l \in WinnerIndices(a) : k <= l]
          ELSE cr.result = "null"

\* C33 witness: a closed, unflagged market whose two prices are both at
\* least 0.999, Down listed first, and Down is returned.
C33_Witness ==
  /\ cr.returned
  /\ cr.answer.ok /\ cr.answer.parsed
  /\ ~cr.answer.resolved /\ cr.answer.closed
  /\ cr.answer.outcomes = <<"Down", "Up">>
  /\ cr.answer.outcomePrices = <<"0.9999", "1">>
  /\ cr.result = "Down"

\* C34: setting the abort signal changes nothing in waitForFill, a poll in
\* flight included; once the signal is set no new poll is begun, so at most
\* the poll in flight at that moment completes; and waitForFill returns.
C34_AbortIsCooperative ==
  /\ [][(~aborted /\ aborted' /\ wf.pc # "idle")
          => (wf' = wf /\ orders' = orders /\ cancelLog' = cancelLog)]_vars
  /\ [][(aborted /\ wf.pc # "idle" /\ wf'.pc = "poll")
          => (wf.pc = "poll" /\ wf'.i = wf.i)]_vars
  /\ [][(aborted /\ wf.pc = "sleep" /\ wf' # wf)
          => (wf'.pc = "cancel" /\ wf'.queue = <<"Up", "Down">> /\ wf'.ret = Null)]_vars
  /\ (aborted /\ wf.pc # "idle") ~> (wf.pc = "done")

\* C34 witness: the signal was set while a poll was in flight, that poll
\* was completed and reported a fill, and waitForFill returned it.
C34_Witness ==
  /\ aborted
  /\ abortAt \in {"poll", "pollAnswered"}
  /\ wf.pc = "done"
  /\ wf.result # Null

\* The sides a cancellation request was sent for, by placeDualOrders, by
\* waitForFill or by the interrupt handler.
CancelRequested == {cancelLog[k] : k \in 1..Len(cancelLog)} \cup {sig.sent[k] : k \in 1..Len(sig.sent)}

\* C35: when the interrupt handler has run to the exit of the process,
\* every order of the process that is still open has been sent a
\* cancellation request.
C35_OpenOrdersCancelledBeforeExit ==
  sig.pc = "exited"
    => \A s \in Sides : orders[s].status = "LIVE" => s \in CancelRequested


\* C36: after close() no socket is created and the price callback is not
\* invoked.
C36_NothingAfterClose ==
  ~wsk.openedAfterClose /\ ~wsk.calledAfterClose

\* C37: when the settlement query of one window throws, the cycle goes on
\* with the groups of the other windows.
C37_ThrowLeavesOtherGroups ==
  [][(Len(cycles[1]) >= 2 /\ CycleResponse(1, "throw", FALSE))
       => cycles'[1] = Tail(cycles[1])]_vars

\* C38: while the settled-early flag stays raised, no position is added to
\* the ledger.
C38_NoPositionWhileSettled ==
  [][(marketSettled /\ marketSettled') => Len(trades') = Len(trades)]_vars

\* C39: once stopResolutionLoop has run, no cycle starts and the ledger is
\* not written again, a cycle in flight included: the handle is closed in
\* the same step, and the write of a cycle whose answer arrives later fails.
C39_NoWriteAfterStop ==
  /\ [][~resolutionTimer => (trades' = trades /\ ~resolutionTimer')]_vars
  /\ [][(~resolutionTimer /\ cycles' # cycles)
          => \A c \in CycleIds : cycles'[c] = IdleCycle \/ cycles'[c] = cycles[c]]_vars
  /\ [](~resolutionTimer => ~dbOpen)

\* C39 witness: the loop was stopped while a cycle was waiting for the
\* answer about a settled market, whose position is still unresolved.
C39_Witness ==
  /\ ~resolutionTimer /\ ml.pc = "halted"
  /\ cycles[1] # IdleCycle
  /\ mk[0] \in Sides
  /\ trades[1].outcome = "NULL"

\* C40: every row of the ledger is either unresolved, with payout, profit
\* and resolution time unset, or resolved with all three set: a win with
\* payout 1 and profit 1 - buy_price, a loss or a timeout with payout 0 and
\* profit -buy_price; there is no other outcome.
C40_RowsAreConsistent ==
  \A i \in Ids(trades) :
    LET t == trades[i]
    IN /\ t.outcome \in {"NULL", "win", "lose", "timeout"}
       /\ (t.outcome = "NULL") <=> (t.payout = Null)
       /\ (t.outcome = "NULL") <=> (t.profit = Null)
       /\ (t.outcome = "NULL") <=> (t.resolved_at = Null)
       /\ t.outcome = "win"
            => /\ t.payout = Some(WIN_PAYOUT)
               /\ t.profit = Some(WIN_PAYOUT - t.buy_price)
       /\ t.outcome \in {"lose", "timeout"}
            => /\ t.payout = Some(LOSE_PAYOUT)
               /\ t.profit = Some(0 - t.buy_price)

\* C40 witness: a ledger holding a row that timed out and a row that was
\* won.
C40_Witness ==
  /\ \E i \in Ids(trades) : trades[i].outcome = "timeout"
  /\ \E i \in Ids(trades) : trades[i].outcome = "win"

====
